---- MODULE Spec2Model ----
(***************************************************************************)
(* A model of the rulebook assistant: the SQLite game library              *)
(* (database.py), the ingestion script (process_rulebooks.py) and the      *)
(* question path of the chat application (app.py).                         *)
(*                                                                         *)
(* Strings are sequences of one-character strings, so that replace, split, *)
(* lower, title and the substring tests of the code are computed and not   *)
(* assumed.  A page's text is represented by the token sequence            *)
(* encoding.encode(text) returns, and a chunk's text by the token window   *)
(* that encoding.decode is applied to.                                     *)
(***************************************************************************)
EXTENDS Integers, Sequences, FiniteSets, TLC

VARIABLES
    db,      \* the committed content of game_library.db
    conn,    \* per connection: the frame of the add_game / delete_game call using it
    ck,      \* the frame of a chunk_text call
    run,     \* the frame of process_rulebooks.main
    emb,     \* the frame of a create_embeddings call
    srch,    \* the frame of a search_chunks call
    ans,     \* the frame of an answer_question call
    doc,     \* the frame of a get_document_type call
    chat     \* st.session_state and the cached game library of app.main

vars == <<db, conn, ck, run, emb, srch, ans, doc, chat>>

----------------------------------------------------------------------------
(* Bounds of the model *)

MaxBatch == 2        \* chunks in one add_game batch
MaxGameId == 2       \* highest AUTOINCREMENT id handed out for games
MaxChunkId == 2      \* highest AUTOINCREMENT id handed out for chunks
MaxTotalPages == 2   \* highest cumulative total_pages of one game
MaxPages == 2        \* pages handed to one chunk_text call
MaxLen == 4          \* tokens on one page
MaxSize == 3         \* chunk_size of a chunk_text call
MaxOverlap == 3      \* overlap of a chunk_text call

(* Configuration of process_rulebooks.py *)

CHUNK_SIZE == 500

CHUNK_OVERLAP == 50

----------------------------------------------------------------------------
(* Helpers on sequences and sets *)

Range(s) == {s[i] : i \in 1..Len(s)}

Max2(a, b) == IF a >= b THEN a ELSE b

Min2(a, b) == IF a <= b THEN a ELSE b

----------------------------------------------------------------------------
(* Python's str operations, on sequences of one-character strings *)

LowerLetters ==
    <<"a", "b", "c", "d", "e", "f", "g", "h", "i", "j", "k", "l", "m",
      "n", "o", "p", "q", "r", "s", "t", "u", "v", "w", "x", "y", "z">>

UpperLetters ==
    <<"A", "B", "C", "D", "E", "F", "G", "H", "I", "J", "K", "L", "M",
      "N", "O", "P", "Q", "R", "S", "T", "U", "V", "W", "X", "Y", "Z">>

IndexIn(letters, ch) ==
    IF \E k \in 1..Len(letters) : letters[k] = ch
        THEN CHOOSE k \in 1..Len(letters) : letters[k] = ch
        ELSE 0

IsLetter(ch) == IndexIn(LowerLetters, ch) > 0 \/ IndexIn(UpperLetters, ch) > 0

LowerChar(ch) ==
    IF IndexIn(UpperLetters, ch) > 0 THEN LowerLetters[IndexIn(UpperLetters, ch)] ELSE ch

UpperChar(ch) ==
    IF IndexIn(LowerLetters, ch) > 0 THEN UpperLetters[IndexIn(LowerLetters, ch)] ELSE ch

\* s.lower()
StrLower(s) == [k \in 1..Len(s) |-> LowerChar(s[k])]

\* s.title(): a letter that follows a non-letter is upper-cased, every other lower-cased
StrTitle(s) ==
    [k \in 1..Len(s) |->
        IF k = 1 \/ ~IsLetter(s[k - 1]) THEN UpperChar(s[k]) ELSE LowerChar(s[k])]

\* sub occurs in s at index k
OccursAt(s, sub, k) ==
    /\ k + Len(sub) - 1 <= Len(s)
    /\ \A j \in 1..Len(sub) : s[k + j - 1] = sub[j]

\* sub in s
StrContains(s, sub) == \E k \in 1..(Len(s) + 1) : OccursAt(s, sub, k)

\* s.find(sub) + 1: the index of the first occurrence, 0 when there is none
StrFind(s, sub) ==
    IF StrContains(s, sub)
        THEN CHOOSE k \in 1..(Len(s) + 1) :
                /\ OccursAt(s, sub, k)
                /\ \A j \in 1..(k - 1) : ~OccursAt(s, sub, j)
        ELSE 0

\* s.replace(sub, rep) for a non-empty sub: left to right, occurrences do not overlap
RECURSIVE StrReplace(_, _, _)
StrReplace(s, sub, rep) ==
    IF Len(s) = 0 THEN <<>>
    ELSE IF OccursAt(s, sub, 1)
        THEN rep \o StrReplace(SubSeq(s, Len(sub) + 1, Len(s)), sub, rep)
        ELSE <<s[1]>> \o StrReplace(Tail(s), sub, rep)

\* s.split(sep)[0]
StrSplitFirst(s, sep) ==
    IF StrFind(s, sep) = 0 THEN s ELSE SubSeq(s, 1, StrFind(s, sep) - 1)

\* s.strip()
RECURSIVE StrStrip(_)
StrStrip(s) ==
    IF Len(s) = 0 THEN s
    ELSE IF s[1] = " " THEN StrStrip(Tail(s))
    ELSE IF s[Len(s)] = " " THEN StrStrip(SubSeq(s, 1, Len(s) - 1))
    ELSE s

----------------------------------------------------------------------------
(* process_rulebooks.py: what a filename says *)

Ext == <<".", "p", "d", "f">>

\* extract_game_title_from_filename(filename)
extract_game_title_from_filename(filename) ==
    LET t0 == StrReplace(filename, Ext, <<>>)
        separators == << <<" ", "-", " ">>, <<"-">>, <<"_">> >>
        first == IF \E k \in 1..Len(separators) : StrContains(t0, separators[k])
                    THEN CHOOSE k \in 1..Len(separators) :
                            /\ StrContains(t0, separators[k])
                            /\ \A j \in 1..(k - 1) : ~StrContains(t0, separators[j])
                    ELSE 0
        t1 == IF first = 0 THEN t0 ELSE StrSplitFirst(t0, separators[first])
        t2 == StrStrip(t1)
        t3 == StrReplace(StrReplace(t2, <<"_">>, <<" ">>), <<"-">>, <<" ">>)
    IN  StrTitle(t3)

\* get_document_type(filename)
get_document_type_RulesFirst(filename) ==
    LET filename_lower == StrLower(filename)
    IN  IF \/ StrContains(filename_lower, <<"f", "a", "q">>)
           \/ StrContains(filename_lower, <<"f", ".", "a", ".", "q">>)
            THEN "faq"
        ELSE IF \/ StrContains(filename_lower,
                               <<"r", "u", "l", "e", "b", "o", "o", "k">>)
                \/ StrContains(filename_lower, <<"r", "u", "l", "e", "s">>)
            THEN "rulebook"
        ELSE IF StrContains(filename_lower, <<"e", "r", "r", "a", "t", "a">>)
            THEN "errata"
        ELSE "supplement"

get_document_type(filename) ==
    LET filename_lower == StrLower(filename)
    IN  IF \/ StrContains(filename_lower, <<"f", "a", "q">>)
           \/ StrContains(filename_lower, <<"f", ".", "a", ".", "q">>)
            THEN "faq"
        ELSE IF StrContains(filename_lower, <<"e", "r", "r", "a", "t", "a">>)
            THEN "errata"
        ELSE IF \/ StrContains(filename_lower,
                               <<"r", "u", "l", "e", "b", "o", "o", "k">>)
                \/ StrContains(filename_lower, <<"r", "u", "l", "e", "s">>)
            THEN "rulebook"
        ELSE "supplement"

----------------------------------------------------------------------------
(* database.py: the tables.  A database value d holds the rows of games,  *)
(* chunks and processed_files and the AUTOINCREMENT counters that SQLite   *)
(* keeps in sqlite_sequence (ids are never reused, also after a delete).   *)
(* The timestamp columns and processed_files.id are never read and are     *)
(* left out.  Foreign keys are declared but not enforced (the code never   *)
(* issues PRAGMA foreign_keys = ON).                                       *)

EmptyDb ==
    [games |-> {}, chunks |-> {}, files |-> {}, seq_games |-> 0, seq_chunks |-> 0]

\* SELECT ... FROM games WHERE title = ? ; fetchone(): <<>> for None, <<row>> else
SelectGame_FindsNothing(d, title) == <<>>

SelectGame(d, title) ==
    LET rows == {g \in d.games : g.title = title}
    IN  IF rows = {} THEN <<>> ELSE <<CHOOSE g \in rows : TRUE>>

game_exists(d, title) == SelectGame(d, title) /= <<>>

file_already_processed_Never(d, filename) == FALSE

file_already_processed(d, filename) == \E f \in d.files : f.filename = filename

\* UPDATE games SET total_pages = ?, total_chunks = ? WHERE id = ?
StmtUpdateGame_Overwrite(d, game_id, old_pages, old_chunks, total_pages, n) ==
    [d EXCEPT !.games =
        {IF g.id = game_id
            THEN [g EXCEPT !.total_pages = total_pages, !.total_chunks = n]
            ELSE g : g \in d.games}]

StmtUpdateGame(d, game_id, old_pages, old_chunks, total_pages, n) ==
    [d EXCEPT !.games =
        {IF g.id = game_id
            THEN [g EXCEPT !.total_pages = old_pages + total_pages,
                           !.total_chunks = old_chunks + n]
            ELSE g : g \in d.games}]

\* title TEXT UNIQUE: INSERT INTO games raises IntegrityError on a second row
InsertGameViolatesUnique(d, title) == \E g \in d.games : g.title = title

\* INSERT INTO games (title, filename, total_pages, total_chunks); cursor.lastrowid
StmtInsertGame_CountsNoChunk(d, title, filename, total_pages, n) ==
    [d EXCEPT !.games = @ \cup {[id |-> d.seq_games + 1, title |-> title,
                                 filename |-> filename, total_pages |-> total_pages,
                                 total_chunks |-> 0]},
              !.seq_games = @ + 1]

StmtInsertGame(d, title, filename, total_pages, n) ==
    [d EXCEPT !.games = @ \cup {[id |-> d.seq_games + 1, title |-> title,
                                 filename |-> filename, total_pages |-> total_pages,
                                 total_chunks |-> n]},
              !.seq_games = @ + 1]

\* chunk['embedding'] raises KeyError when the dict has no such key
ChunkInsertRaises(chunk) == "embedding" \notin DOMAIN chunk

\* INSERT INTO chunks (game_id, chunk_id, page_number, text, embedding, source_type)
StmtInsertChunk_DefaultType(d, game_id, chunk, source_type) ==
    [d EXCEPT !.chunks = @ \cup {[id |-> d.seq_chunks + 1, game_id |-> game_id,
                                  chunk_id |-> chunk.chunk_id,
                                  page_number |-> chunk.page, text |-> chunk.text,
                                  embedding |-> chunk.embedding,
                                  source_type |-> "rulebook"]},
              !.seq_chunks = @ + 1]

StmtInsertChunk(d, game_id, chunk, source_type) ==
    [d EXCEPT !.chunks = @ \cup {[id |-> d.seq_chunks + 1, game_id |-> game_id,
                                  chunk_id |-> chunk.chunk_id,
                                  page_number |-> chunk.page, text |-> chunk.text,
                                  embedding |-> chunk.embedding,
                                  source_type |-> source_type]},
              !.seq_chunks = @ + 1]

\* INSERT OR IGNORE INTO processed_files (filename UNIQUE, game_id, source_type)
StmtRecordFile(d, filename, game_id, source_type) ==
    IF file_already_processed(d, filename) THEN d
    ELSE [d EXCEPT !.files = @ \cup {[filename |-> filename, game_id |-> game_id,
                                      source_type |-> source_type]}]

\* DELETE FROM chunks WHERE game_id = ?
StmtDeleteChunks_LeavesRows(d, game_id) == d

StmtDeleteChunks(d, game_id) ==
    [d EXCEPT !.chunks = {c \in @ : c.game_id /= game_id}]

\* DELETE FROM games WHERE id = ?
StmtDeleteGame_EveryRow(d, game_id) == [d EXCEPT !.games = {}]

StmtDeleteGame(d, game_id) ==
    [d EXCEPT !.games = {g \in @ : g.id /= game_id}]

\* conn.commit(): the transaction's content becomes the committed content
CommitDb(d, tx) == IF tx = <<>> THEN d ELSE tx[1]

\* conn.rollback(): the transaction's content is discarded
RollbackDb_KeepsPartial(d, tx) == IF tx = <<>> THEN d ELSE tx[1]

RollbackDb(d, tx) == d

----------------------------------------------------------------------------
(* database.py: add_game and delete_game, one statement per step.  Each    *)
(* call opens its own connection (sqlite3.connect); conn[c] is the frame   *)
(* of the call that uses connection c and is kept, with pc = "idle", after *)
(* the call has returned or raised.  A SELECT reads the committed content  *)
(* and holds no lock once fetchone() has returned.  The first INSERT,      *)
(* UPDATE or DELETE of a call opens the implicit transaction and takes the *)
(* database's write lock, which only one connection holds at a time; the   *)
(* transaction's content is private (tx) until commit.                     *)

Conns == {"c1", "c2"}

SeqConns == {"c1"}

\* the files of the rulebooks folder: a-rules.pdf, a-faq.pdf, b.pdf
StoreFilenames ==
    {<<"a", "-", "r", "u", "l", "e", "s", ".", "p", "d", "f">>,
     <<"a", "-", "f", "a", "q", ".", "p", "d", "f">>,
     <<"b", ".", "p", "d", "f">>}

StoreTitles == {extract_game_title_from_filename(f) : f \in StoreFilenames}

\* A chunk dict as add_game receives it; the i-th chunk of a batch has
\* chunk_id i-1 (chunk_text numbers from 0).  A dict may lack 'embedding'.
StoreChunk(i, has_embedding) ==
    IF has_embedding
        THEN [chunk_id |-> i - 1, page |-> i, text |-> <<i>>, embedding |-> <<1, 0>>]
        ELSE [chunk_id |-> i - 1, page |-> i, text |-> <<i>>]

\* batches of 0..MaxBatch chunks: every chunk with its embedding, or the last
\* one without (add_game reads no chunk after the one that makes it raise)
StoreBatches ==
    {[i \in 1..n |-> StoreChunk(i, TRUE)] : n \in 0..MaxBatch}
    \cup {[i \in 1..n |-> StoreChunk(i, i < n)] : n \in 1..MaxBatch}

IdleFrame ==
    [pc |-> "idle", op |-> "none", title |-> <<>>, filename |-> <<>>,
     total_pages |-> 0, batch |-> <<>>, source_type |-> "rulebook",
     existing |-> <<>>, game_id |-> 0, i |-> 0, tx |-> <<>>,
     ret |-> "none", found |-> FALSE]

Active(c) == conn[c].pc /= "idle"

\* the write lock is free for c when no other connection has a transaction open
WriteLockFree(c) == \A o \in Conns \ {c} : conn[o].tx = <<>>

\* The frame a finished call leaves: what it did (op), how it ended (ret), its
\* return value (game_id of add_game, found of delete_game) and the loop index
\* it had reached (i); the other locals are gone.
Ended(f, ret, found) ==
    [IdleFrame EXCEPT !.op = f.op, !.ret = ret, !.found = found,
                      !.game_id = IF ret = "returned" /\ f.op = "add"
                                      THEN f.game_id ELSE 0,
                      !.i = IF ret = "raised" THEN f.i ELSE 0]

\* except Exception: conn.rollback(); raise e; finally: conn.close()
Raised(c) ==
    /\ db' = RollbackDb(db, conn[c].tx)
    /\ conn' = [conn EXCEPT ![c] = Ended(conn[c], "raised", FALSE)]

\* The bounds of the model.  A call starts only when the ids and totals it
\* needs are within the bounds; with two calls interleaved the other call may
\* use them up first, and then the statement that needs them waits.
StoredPages(d, title) ==
    IF SelectGame(d, title) = <<>> THEN 0 ELSE SelectGame(d, title)[1].total_pages

WithinBounds(title, total_pages, batch) ==
    /\ db.seq_chunks + Len(batch) <= MaxChunkId
    /\ game_exists(db, title) \/ db.seq_games < MaxGameId
    /\ StoredPages(db, title) + total_pages <= MaxTotalPages

OutsideStore == UNCHANGED <<ck, run, emb, srch, ans, doc, chat>>

\* add_game(title, filename, total_pages, chunks_with_embeddings, source_type)
AddGameCall(c, title, filename, total_pages, batch, source_type) ==
    /\ conn[c].pc = "idle"
    /\ WithinBounds(title, total_pages, batch)
    /\ conn' = [conn EXCEPT ![c] =
            [IdleFrame EXCEPT !.pc = "select", !.op = "add", !.title = title,
                              !.filename = filename, !.total_pages = total_pages,
                              !.batch = batch, !.source_type = source_type]]
    /\ UNCHANGED db
    /\ OutsideStore

\* SELECT id, total_pages, total_chunks FROM games WHERE title = ?
AddGameSelect(c) ==
    /\ conn[c].pc = "select"
    /\ LET existing == SelectGame(db, conn[c].title)
       IN  conn' = [conn EXCEPT
                ![c].existing = existing,
                ![c].game_id = IF existing /= <<>> THEN existing[1].id ELSE 0,
                ![c].pc = IF existing /= <<>> THEN "update_game" ELSE "insert_game"]
    /\ UNCHANGED db
    /\ OutsideStore

AfterGameRow(c) == IF Len(conn[c].batch) >= 1 THEN "insert_chunk" ELSE "record_file"

\* if existing: UPDATE games SET total_pages = old + new, total_chunks = old + len
AddGameUpdate(c) ==
    /\ conn[c].pc = "update_game"
    /\ WriteLockFree(c)
    /\ conn[c].existing[1].total_pages + conn[c].total_pages <= MaxTotalPages
    /\ LET f == conn[c]
           d == StmtUpdateGame(db, f.game_id, f.existing[1].total_pages,
                               f.existing[1].total_chunks, f.total_pages,
                               Len(f.batch))
       IN  conn' = [conn EXCEPT ![c].tx = <<d>>, ![c].i = 1, ![c].pc = AfterGameRow(c)]
    /\ UNCHANGED db
    /\ OutsideStore

\* else: INSERT INTO games ...; game_id = cursor.lastrowid
AddGameInsert(c) ==
    /\ conn[c].pc = "insert_game"
    /\ WriteLockFree(c)
    /\ db.seq_games < MaxGameId
    /\ LET f == conn[c]
       IN  IF InsertGameViolatesUnique(db, f.title)
               THEN Raised(c)
               ELSE /\ conn' = [conn EXCEPT
                            ![c].tx = <<StmtInsertGame(db, f.title, f.filename,
                                                       f.total_pages, Len(f.batch))>>,
                            ![c].game_id = db.seq_games + 1,
                            ![c].i = 1,
                            ![c].pc = AfterGameRow(c)]
                    /\ UNCHANGED db
    /\ OutsideStore

\* for chunk in chunks_with_embeddings: json.dumps(chunk['embedding']); INSERT INTO chunks
AddGameInsertChunk(c) ==
    /\ conn[c].pc = "insert_chunk"
    /\ conn[c].tx[1].seq_chunks < MaxChunkId
    /\ LET f == conn[c]
           chunk == f.batch[f.i]
       IN  IF ChunkInsertRaises(chunk)
               THEN Raised(c)
               ELSE /\ conn' = [conn EXCEPT
                            ![c].tx = <<StmtInsertChunk(f.tx[1], f.game_id, chunk,
                                                        f.source_type)>>,
                            ![c].i = f.i + 1,
                            ![c].pc = IF f.i + 1 <= Len(f.batch)
                                          THEN "insert_chunk" ELSE "record_file"]
                    /\ UNCHANGED db
    /\ OutsideStore

\* INSERT OR IGNORE INTO processed_files (filename, game_id, source_type)
AddGameRecordFile(c) ==
    /\ conn[c].pc = "record_file"
    /\ LET f == conn[c]
       IN  conn' = [conn EXCEPT
                ![c].tx = <<StmtRecordFile(f.tx[1], f.filename, f.game_id,
                                           f.source_type)>>,
                ![c].pc = "commit"]
    /\ UNCHANGED db
    /\ OutsideStore

\* conn.commit(); return game_id
AddGameCommit(c) ==
    /\ conn[c].pc = "commit"
    /\ db' = CommitDb(db, conn[c].tx)
    /\ conn' = [conn EXCEPT ![c] = Ended(conn[c], "returned", FALSE)]
    /\ OutsideStore

\* delete_game(title)
DeleteGameCall(c, title) ==
    /\ conn[c].pc = "idle"
    /\ conn' = [conn EXCEPT ![c] =
            [IdleFrame EXCEPT !.pc = "d_select", !.op = "delete", !.title = title]]
    /\ UNCHANGED db
    /\ OutsideStore

\* SELECT id FROM games WHERE title = ? ; if game: ... ; return False
DeleteGameSelect(c) ==
    /\ conn[c].pc = "d_select"
    /\ LET game == SelectGame(db, conn[c].title)
       IN  conn' = [conn EXCEPT ![c] =
                IF game /= <<>>
                    THEN [conn[c] EXCEPT !.existing = game, !.game_id = game[1].id,
                                         !.pc = "d_chunks"]
                    ELSE Ended(conn[c], "returned", FALSE)]
    /\ UNCHANGED db
    /\ OutsideStore

\* DELETE FROM chunks WHERE game_id = ?
DeleteGameChunks(c) ==
    /\ conn[c].pc = "d_chunks"
    /\ WriteLockFree(c)
    /\ conn' = [conn EXCEPT ![c].tx = <<StmtDeleteChunks(db, conn[c].game_id)>>,
                            ![c].pc = "d_game"]
    /\ UNCHANGED db
    /\ OutsideStore

\* DELETE FROM games WHERE id = ?
DeleteGameRow(c) ==
    /\ conn[c].pc = "d_game"
    /\ conn' = [conn EXCEPT
            ![c].tx = <<StmtDeleteGame(conn[c].tx[1], conn[c].game_id)>>,
            ![c].pc = "d_commit"]
    /\ UNCHANGED db
    /\ OutsideStore

\* conn.commit(); return True
DeleteGameCommit(c) ==
    /\ conn[c].pc = "d_commit"
    /\ db' = CommitDb(db, conn[c].tx)
    /\ conn' = [conn EXCEPT ![c] = Ended(conn[c], "returned", TRUE)]
    /\ OutsideStore

\* any statement inside the try block may raise sqlite3.Error (disk full, I/O
\* error): the except branch rolls back and re-raises
StatementError(c) ==
    /\ Active(c)
    /\ Raised(c)
    /\ OutsideStore

\* a first write that finds the write lock held waits (the step is not enabled)
\* and raises OperationalError('database is locked') when the timeout expires
Busy(c) ==
    /\ conn[c].pc \in {"update_game", "insert_game", "d_chunks"}
    /\ ~WriteLockFree(c)
    /\ Raised(c)
    /\ OutsideStore

\* process_pdf, the only caller of add_game, derives title and source_type
\* from the filename; total_pages counts the pages the chunks were cut from
\* (here one chunk a page), and a file whose pages gave no chunk has one page
CallAddGame(c) ==
    \E filename \in StoreFilenames, batch \in StoreBatches :
      \E total_pages \in {Max2(Len(batch), 1)} :
        AddGameCall(c, extract_game_title_from_filename(filename), filename,
                    total_pages, batch, get_document_type(filename))

CallDeleteGame(c) == \E title \in StoreTitles : DeleteGameCall(c, title)

InitStore ==
    /\ db = EmptyDb
    /\ conn = [c \in Conns |-> IdleFrame]

InitOther ==
    /\ ck = <<>> /\ run = <<>> /\ emb = <<>> /\ srch = <<>> /\ ans = <<>>
    /\ doc = <<>> /\ chat = <<>>

Init == InitStore /\ InitOther

\* calls one after another
Next ==
    \/ \E c \in SeqConns : CallAddGame(c)
    \/ \E c \in SeqConns : AddGameSelect(c)
    \/ \E c \in SeqConns : AddGameUpdate(c)
    \/ \E c \in SeqConns : AddGameInsert(c)
    \/ \E c \in SeqConns : AddGameInsertChunk(c)
    \/ \E c \in SeqConns : AddGameRecordFile(c)
    \/ \E c \in SeqConns : AddGameCommit(c)
    \/ \E c \in SeqConns : CallDeleteGame(c)
    \/ \E c \in SeqConns : DeleteGameSelect(c)
    \/ \E c \in SeqConns : DeleteGameChunks(c)
    \/ \E c \in SeqConns : DeleteGameRow(c)
    \/ \E c \in SeqConns : DeleteGameCommit(c)
    \/ \E c \in SeqConns : StatementError(c)

Spec == Init /\ [][Next]_vars

\* two add_game calls at a time, each on its own connection, interleaved
\* statement by statement
NextConc ==
    \/ \E c \in Conns : CallAddGame(c)
    \/ \E c \in Conns : AddGameSelect(c)
    \/ \E c \in Conns : AddGameUpdate(c)
    \/ \E c \in Conns : AddGameInsert(c)
    \/ \E c \in Conns : AddGameInsertChunk(c)
    \/ \E c \in Conns : AddGameRecordFile(c)
    \/ \E c \in Conns : AddGameCommit(c)
    \/ \E c \in Conns : StatementError(c)
    \/ \E c \in Conns : Busy(c)

SpecConc == Init /\ [][NextConc]_vars

----------------------------------------------------------------------------
(* process_rulebooks.py: chunk_text.  ck is the frame of the call: the     *)
(* arguments, the index p of the page the for loop is at, the while loop's *)
(* start and the chunks list.  A page is [page, tokens]: its number and    *)
(* encoding.encode(text); token i of page n is <<n, i>>, so that a token   *)
(* tells which page and which place it comes from.                         *)

\* tokens[start:end] of a Python list: negative indices count from the end,
\* indices outside the list are clamped
PySlice(tokens, start, end) ==
    LET n == Len(tokens)
        lo == IF start < 0 THEN Max2(start + n, 0) ELSE Min2(start, n)
        hi == IF end < 0 THEN Max2(end + n, 0) ELSE Min2(end, n)
    IN  IF lo < hi THEN SubSeq(tokens, lo + 1, hi) ELSE <<>>

\* chunks.append({"text": ..., "page": page_num, "chunk_id": len(chunks)})
NewChunk_CountsFromOne(chunks, page_num, chunk_tokens) ==
    [text |-> chunk_tokens, page |-> page_num, chunk_id |-> Len(chunks) + 1]

NewChunk(chunks, page_num, chunk_tokens) ==
    [text |-> chunk_tokens, page |-> page_num, chunk_id |-> Len(chunks)]

\* start += (chunk_size - overlap)
NextStart_IgnoresOverlap(start, chunk_size, overlap) == start + chunk_size

NextStart_StepsOneLess(start, chunk_size, overlap) ==
    start + Max2(chunk_size - overlap - 1, 1)

NextStart(start, chunk_size, overlap) == start + (chunk_size - overlap)

ChunkIdle ==
    [pc |-> "idle", pages |-> <<>>, chunk_size |-> CHUNK_SIZE,
     overlap |-> CHUNK_OVERLAP, p |-> 0, start |-> 0, chunks |-> <<>>]

\* chunk_text(pages, chunk_size, overlap): chunks = []
ChunkEnter(pages, chunk_size, overlap) ==
    [pc |-> "for", pages |-> pages, chunk_size |-> chunk_size, overlap |-> overlap,
     p |-> 0, start |-> 0, chunks |-> <<>>]

\* for page_data in pages: tokens = encoding.encode(text); start = 0 -- or return chunks
ChunkFor(f) ==
    IF f.p + 1 <= Len(f.pages)
        THEN [f EXCEPT !.p = @ + 1, !.start = 0, !.pc = "while"]
        ELSE [f EXCEPT !.pc = "done"]

\* while start < len(tokens)
ChunkWhileHolds_FullWindowsOnly(f) ==
    f.start + f.chunk_size <= Len(f.pages[f.p].tokens)

ChunkWhileHolds(f) == f.start < Len(f.pages[f.p].tokens)

\* the body of the while loop
ChunkWindow(f) ==
    LET tokens == f.pages[f.p].tokens
        page_num == f.pages[f.p].page
        end == f.start + f.chunk_size
        chunk_tokens == PySlice(tokens, f.start, end)
    IN  [f EXCEPT !.chunks = Append(@, NewChunk(@, page_num, chunk_tokens)),
                  !.start = NextStart(@, f.chunk_size, f.overlap)]

\* the while condition is false: on to the next page
ChunkWhileExit(f) == [f EXCEPT !.pc = "for"]

\* chunk_text run to its return value; defined when overlap < chunk_size
RECURSIVE ChunkRun(_)
ChunkRun(f) ==
    IF f.pc = "done" THEN f.chunks
    ELSE IF f.pc = "for" THEN ChunkRun(ChunkFor(f))
    ELSE IF ChunkWhileHolds(f) THEN ChunkRun(ChunkWindow(f))
    ELSE ChunkRun(ChunkWhileExit(f))

chunk_text(pages, chunk_size, overlap) ==
    ChunkRun(ChunkEnter(pages, chunk_size, overlap))

\* the pages extract_text_from_pdf returns are numbered from 1
PageOf(n, len) == [page |-> n, tokens |-> [i \in 1..len |-> <<n, i>>]]

PageSeqs ==
    UNION {{[n \in 1..k |-> PageOf(n, lens[n])] : lens \in [1..k -> 0..MaxLen]}
           : k \in 0..MaxPages}

\* A run with overlap < chunk_size cuts at most one window per token.  The
\* model stops a run that has cut more, which only a run that never ends does.
ChunkLimit == MaxPages * MaxLen + 1

OutsideChunker == UNCHANGED <<db, conn, run, emb, srch, ans, doc, chat>>

ChunkTextCall ==
    /\ ck.pc = "idle"
    /\ \E pages \in PageSeqs, chunk_size \in 1..MaxSize, overlap \in 0..MaxOverlap :
            ck' = ChunkEnter(pages, chunk_size, overlap)
    /\ OutsideChunker

ChunkTextFor ==
    /\ ck.pc = "for"
    /\ ck' = ChunkFor(ck)
    /\ OutsideChunker

ChunkTextWindow ==
    /\ ck.pc = "while"
    /\ ChunkWhileHolds(ck)
    /\ Len(ck.chunks) < ChunkLimit
    /\ ck' = ChunkWindow(ck)
    /\ OutsideChunker

ChunkTextWhileExit ==
    /\ ck.pc = "while"
    /\ ~ChunkWhileHolds(ck)
    /\ ck' = ChunkWhileExit(ck)
    /\ OutsideChunker

InitChunk ==
    /\ ck = ChunkIdle
    /\ InitStore
    /\ run = <<>> /\ emb = <<>> /\ srch = <<>> /\ chat = <<>> /\ ans = <<>>
    /\ doc = <<>>

NextChunk ==
    \/ ChunkTextCall
    \/ ChunkTextFor
    \/ ChunkTextWindow
    \/ ChunkTextWhileExit

SpecChunk == InitChunk /\ [][NextChunk]_vars

----------------------------------------------------------------------------
(* database.py: add_game, delete_game and get_game_chunks run from their   *)
(* first statement to their return with no other connection open, as the   *)
(* ingestion script and the chat application call them.                    *)

\* for chunk in chunks_with_embeddings: INSERT INTO chunks, from the i-th on
RECURSIVE InsertChunks(_, _, _, _, _)
InsertChunks(d, game_id, batch, source_type, i) ==
    IF i > Len(batch) THEN d
    ELSE InsertChunks(StmtInsertChunk(d, game_id, batch[i], source_type),
                      game_id, batch, source_type, i + 1)

\* add_game(...) of a batch whose chunks all carry an embedding: the committed
\* content after the call
AddGameRun(d, title, filename, total_pages, batch, source_type) ==
    LET existing == SelectGame(d, title)
        game_id == IF existing /= <<>> THEN existing[1].id ELSE d.seq_games + 1
        d1 == IF existing /= <<>>
                THEN StmtUpdateGame(d, game_id, existing[1].total_pages,
                                    existing[1].total_chunks, total_pages, Len(batch))
                ELSE StmtInsertGame(d, title, filename, total_pages, Len(batch))
        d2 == InsertChunks(d1, game_id, batch, source_type, 1)
    IN  StmtRecordFile(d2, filename, game_id, source_type)

\* delete_game(title): the committed content after the call
DeleteGameRun(d, title) ==
    LET game == SelectGame(d, title)
    IN  IF game = <<>> THEN d
        ELSE StmtDeleteGame(StmtDeleteChunks(d, game[1].id), game[1].id)

\* the sum of val[r] over the rows r
RECURSIVE SumRows(_, _)
SumRows(rows, val) ==
    IF rows = {} THEN 0
    ELSE LET r == CHOOSE x \in rows : TRUE
         IN  val[r] + SumRows(rows \ {r}, val)

\* get_library_stats(): SELECT COUNT(*), SUM(total_pages), SUM(total_chunks)
\* FROM games; SUM is NULL for a table without rows, and "or 0" makes it 0
get_library_stats(d) ==
    [total_games |-> Cardinality(d.games),
     total_pages |-> IF d.games = {} THEN 0
                     ELSE SumRows(d.games, [g \in d.games |-> g.total_pages]),
     total_chunks |-> IF d.games = {} THEN 0
                      ELSE SumRows(d.games, [g \in d.games |-> g.total_chunks])]

\* the rows of a SELECT ... ORDER BY chunk_id, as a sequence: by chunk_id, rows
\* with the same chunk_id in the order of their rowid
OrderByChunkId(rows) ==
    LET Before(a, b) == a.chunk_id < b.chunk_id
                        \/ (a.chunk_id = b.chunk_id /\ a.id < b.id)
        Place(r) == 1 + Cardinality({o \in rows : Before(o, r)})
    IN  [k \in 1..Cardinality(rows) |-> CHOOSE r \in rows : Place(r) = k]

\* get_game_chunks(game_title): None when no game has the title (here <<>>,
\* which Python's "not chunks" cannot tell from the empty list either)
get_game_chunks_WithoutGameCheck(d, game_title) ==
    LET sorted == OrderByChunkId(d.chunks)
    IN  [k \in 1..Len(sorted) |->
            [chunk_id |-> sorted[k].chunk_id, page |-> sorted[k].page_number,
             text |-> sorted[k].text, embedding |-> sorted[k].embedding,
             source_type |-> sorted[k].source_type]]

get_game_chunks(d, game_title) ==
    LET game == SelectGame(d, game_title)
        rows == IF game = <<>> THEN {}
                ELSE {c \in d.chunks : c.game_id = game[1].id}
        sorted == OrderByChunkId(rows)
    IN  [k \in 1..Len(sorted) |->
            [chunk_id |-> sorted[k].chunk_id, page |-> sorted[k].page_number,
             text |-> sorted[k].text, embedding |-> sorted[k].embedding,
             source_type |-> sorted[k].source_type]]

----------------------------------------------------------------------------
(* process_rulebooks.py: create_embeddings.  emb is the frame of the call: *)
(* the chunks, the for loop's i (the index of the batch's first text) and  *)
(* the value it takes next, all_embeddings, and a log of what the call did *)
(* to the outside: every call of voyage_client.embed with its batch number *)
(* and attempt and whether it returned (ok) or raised, and every           *)
(* time.sleep with its seconds.                                            *)

RATE_LIMIT_DELAY == 25

batch_size == 10

\* the vector voyage_client.embed returns for a text; the service is no part
\* of the program, the model lets it answer with a vector fixed by the text
Embedding(text) == <<Len(text), 1>>

\* result.embeddings of voyage_client.embed(texts=batch, ...): one vector per text
EmbedResult(batch) == [k \in 1..Len(batch) |-> Embedding(batch[k])]

\* all_embeddings.extend(result.embeddings)
Extend_Prepends(all_embeddings, embeddings) == embeddings \o all_embeddings

Extend(all_embeddings, embeddings) == all_embeddings \o embeddings

EmbedIdle ==
    [pc |-> "idle", chunks |-> <<>>, i |-> 0, next |-> 0, all_embeddings |-> <<>>,
     log |-> <<>>]

\* texts = [chunk["text"] for chunk in chunks]
EmbedTexts(f) == [k \in 1..Len(f.chunks) |-> f.chunks[k].text]

\* batch = texts[i:i+batch_size]
EmbedBatch(f) == PySlice(EmbedTexts(f), f.i, f.i + batch_size)

\* batch_num = (i // batch_size) + 1
EmbedBatchNum(f) == (f.i \div batch_size) + 1

LogEmbed(f, attempt, ok) ==
    [ev |-> "embed", batch |-> EmbedBatchNum(f), attempt |-> attempt, ok |-> ok,
     secs |-> 0]

LogSleep(f, secs) ==
    [ev |-> "sleep", batch |-> EmbedBatchNum(f), attempt |-> 0, ok |-> TRUE,
     secs |-> secs]

\* create_embeddings(chunks, voyage_client): all_embeddings = []
EmbedEnter(chunks) ==
    [pc |-> "for", chunks |-> chunks, i |-> 0, next |-> 0, all_embeddings |-> <<>>,
     log |-> <<>>]

\* for i in range(0, len(texts), batch_size) -- or, the range used up, the
\* loop that sets chunk["embedding"] = all_embeddings[i] and the return
EmbedFor(f) ==
    IF f.next < Len(f.chunks)
        THEN [f EXCEPT !.i = f.next, !.next = f.next + batch_size, !.pc = "embed"]
        ELSE [f EXCEPT !.pc = "returned",
                       !.chunks = [k \in 1..Len(f.chunks) |->
                                      f.chunks[k] @@
                                      ("embedding" :> f.all_embeddings[k])]]

\* try: result = voyage_client.embed(...); all_embeddings.extend(...); the
\* wait when another batch follows -- or the call raises: on to the except
EmbedFirst(f, ok) ==
    IF ok
        THEN [f EXCEPT !.all_embeddings = Extend(@, EmbedResult(EmbedBatch(f))),
                       !.log = Append(@, LogEmbed(f, 1, TRUE)),
                       !.pc = IF f.i + batch_size < Len(f.chunks)
                                THEN "sleep" ELSE "for"]
        ELSE [f EXCEPT !.log = Append(@, LogEmbed(f, 1, FALSE)), !.pc = "retry_sleep"]

\* time.sleep(RATE_LIMIT_DELAY)
EmbedSleep(f) ==
    [f EXCEPT !.log = Append(@, LogSleep(f, RATE_LIMIT_DELAY)), !.pc = "for"]

\* except Exception: time.sleep(RATE_LIMIT_DELAY * 2)
EmbedRetrySleep(f) ==
    [f EXCEPT !.log = Append(@, LogSleep(f, RATE_LIMIT_DELAY * 2)), !.pc = "retry"]

\* the retry raises: except Exception as retry_error: raise
EmbedRetryFails_GoesOn(f) == [f EXCEPT !.log = Append(@, LogEmbed(f, 2, FALSE)), !.pc = "for"]

EmbedRetryFails(f) == [f EXCEPT !.log = Append(@, LogEmbed(f, 2, FALSE)), !.pc = "raised"]

\* the retry: result = voyage_client.embed(...); all_embeddings.extend(...)
EmbedRetry(f, ok) ==
    IF ok
        THEN [f EXCEPT !.all_embeddings = Extend(@, EmbedResult(EmbedBatch(f))),
                       !.log = Append(@, LogEmbed(f, 2, TRUE)),
                       !.pc = "for"]
        ELSE EmbedRetryFails(f)

\* How the service answers a call: by batch number, "ok" (the first attempt
\* succeeds), "retry_ok" (the first attempt fails, the retry succeeds) or
\* "fail" (both fail)
ServiceAnswers == {"ok", "retry_ok", "fail"}

\* create_embeddings run from a frame to its return or raise against a service
RECURSIVE EmbedRun(_, _)
EmbedRun(f, service) ==
    IF f.pc \in {"returned", "raised"} THEN f
    ELSE IF f.pc = "for" THEN EmbedRun(EmbedFor(f), service)
    ELSE IF f.pc = "embed"
        THEN EmbedRun(EmbedFirst(f, service[EmbedBatchNum(f)] = "ok"), service)
    ELSE IF f.pc = "sleep" THEN EmbedRun(EmbedSleep(f), service)
    ELSE IF f.pc = "retry_sleep" THEN EmbedRun(EmbedRetrySleep(f), service)
    ELSE EmbedRun(EmbedRetry(f, service[EmbedBatchNum(f)] = "retry_ok"), service)

\* create_embeddings(chunks, voyage_client): the frame at its return or raise
create_embeddings(chunks, service) == EmbedRun(EmbedEnter(chunks), service)

MaxEmbedChunks == 21    \* chunks handed to one create_embeddings call

\* the chunks chunk_text hands over: chunk k has chunk_id k - 1 and a text of
\* its own (k tokens), so that its vector tells which text it was returned for
EmbedChunks(n) ==
    [k \in 1..n |-> [text |-> [j \in 1..k |-> <<k, j>>], page |-> k, chunk_id |-> k - 1]]

OutsideEmbed == UNCHANGED <<db, conn, ck, run, srch, ans, doc, chat>>

CreateEmbeddingsCall ==
    /\ emb.pc = "idle"
    /\ \E n \in 0..MaxEmbedChunks : emb' = EmbedEnter(EmbedChunks(n))
    /\ OutsideEmbed

CreateEmbeddingsFor ==
    /\ emb.pc = "for"
    /\ emb' = EmbedFor(emb)
    /\ OutsideEmbed

CreateEmbeddingsFirst ==
    /\ emb.pc = "embed"
    /\ \E ok \in BOOLEAN : emb' = EmbedFirst(emb, ok)
    /\ OutsideEmbed

CreateEmbeddingsSleep ==
    /\ emb.pc = "sleep"
    /\ emb' = EmbedSleep(emb)
    /\ OutsideEmbed

CreateEmbeddingsRetrySleep ==
    /\ emb.pc = "retry_sleep"
    /\ emb' = EmbedRetrySleep(emb)
    /\ OutsideEmbed

CreateEmbeddingsRetry ==
    /\ emb.pc = "retry"
    /\ \E ok \in BOOLEAN : emb' = EmbedRetry(emb, ok)
    /\ OutsideEmbed

InitEmbed ==
    /\ emb = EmbedIdle
    /\ InitStore
    /\ ck = <<>> /\ run = <<>> /\ srch = <<>> /\ chat = <<>> /\ ans = <<>>
    /\ doc = <<>>

NextEmbed ==
    \/ CreateEmbeddingsCall
    \/ CreateEmbeddingsFor
    \/ CreateEmbeddingsFirst
    \/ CreateEmbeddingsSleep
    \/ CreateEmbeddingsRetrySleep
    \/ CreateEmbeddingsRetry

SpecEmbed == InitEmbed /\ [][NextEmbed]_vars

----------------------------------------------------------------------------
(* process_rulebooks.py: process_pdf and main.  run is the frame of main   *)
(* and the rulebooks folder it reads: folder maps the names in the folder  *)
(* to the files, pdf_files is the list main walks, idx the number of files *)
(* process_pdf has been called for, error and log what the last of these   *)
(* calls raised and what its create_embeddings call did.  A file is        *)
(* unreadable (PdfReader raises) or has pages, given by their token        *)
(* counts.                                                                 *)

\* notes.txt, a file of the folder that is no PDF
OtherFilenames == {<<"n", "o", "t", "e", "s", ".", "t", "x", "t">>}

FolderFilenames == StoreFilenames \cup OtherFilenames

\* f.endswith('.pdf')
EndsWith(s, suffix) ==
    Len(s) >= Len(suffix) /\ OccursAt(s, suffix, Len(s) - Len(suffix) + 1)

MaxFilePages == 11      \* pages of the largest file

\* the token counts of the pages of a readable file: one page without text,
\* two pages, and a file whose chunks need more than one embedding batch
FilePageLens == {<<0>>, <<1, 2>>, [n \in 1..MaxFilePages |-> 1]}

Files ==
    {[readable |-> FALSE, lens |-> <<>>]}
    \cup {[readable |-> TRUE, lens |-> l] : l \in FilePageLens}

\* the folders: notes.txt, which PdfReader could not read, and any of the PDF
\* names, each with any file
Folders ==
    {folder \in UNION {[names -> Files] : names \in SUBSET FolderFilenames} :
        /\ OtherFilenames \subseteq DOMAIN folder
        /\ \A f \in OtherFilenames : ~folder[f].readable}

\* [f for f in os.listdir(RULEBOOKS_FOLDER) if f.endswith('.pdf')]
PdfNames(folder) == {f \in DOMAIN folder : EndsWith(f, Ext)}

\* os.listdir returns the names in arbitrary order
Listings(names) ==
    {s \in [1..Cardinality(names) -> names] : Range(s) = names}

\* extract_text_from_pdf(pdf_path): pages numbered from 1
extract_text_from_pdf(file) ==
    [n \in 1..Len(file.lens) |-> PageOf(n, file.lens[n])]

\* the embedding batches of the largest file: total_batches
MaxFileBatches == (MaxFilePages + batch_size - 1) \div batch_size

NoFault == [store |-> FALSE, service |-> [b \in 1..MaxFileBatches |-> "ok"]]

\* what can go wrong in one process_pdf call besides an unreadable file: how
\* the embedding service answers each batch, or a statement of add_game raises
Faults ==
    {[store |-> FALSE, service |-> sv] : sv \in [1..MaxFileBatches -> ServiceAnswers]}
    \cup {[NoFault EXCEPT !.store = TRUE]}

\* What process_pdf leaves in the store once create_embeddings has ended in
\* frame e: add_game is called after create_embeddings has returned, and a
\* statement of add_game that raises is rolled back
ProcessPdfStore_KeepsEmbedded(d, title, filename, total_pages, e, doc_type, fault) ==
    IF fault.store THEN d
    ELSE AddGameRun(d, title, filename, total_pages,
                    [k \in 1..Len(e.all_embeddings) |->
                        e.chunks[k] @@ ("embedding" :> e.all_embeddings[k])],
                    doc_type)

ProcessPdfStore(d, title, filename, total_pages, e, doc_type, fault) ==
    IF e.pc = "raised" \/ fault.store THEN d
    ELSE AddGameRun(d, title, filename, total_pages, e.chunks, doc_type)

\* process_pdf(pdf_path, voyage_client): how the call ends ("True", "False" or
\* "raised"), what raised (error), the committed content it leaves and the
\* log of the create_embeddings call it made
process_pdf(d, filename, file, fault) ==
    LET base_game_title == extract_game_title_from_filename(filename)
        doc_type == get_document_type(filename)
        pages == extract_text_from_pdf(file)
        total_pages == Len(pages)
        chunks == chunk_text(pages, CHUNK_SIZE, CHUNK_OVERLAP)
        e == create_embeddings(chunks, fault.service)
    IN  IF file_already_processed(d, filename)
            THEN [ret |-> "False", error |-> "none", db |-> d, log |-> <<>>]
        ELSE IF ~file.readable
            THEN [ret |-> "raised", error |-> "extract", db |-> d, log |-> <<>>]
        ELSE [ret |-> IF e.pc = "raised" \/ fault.store THEN "raised" ELSE "True",
              error |-> IF e.pc = "raised" THEN "embed"
                        ELSE IF fault.store THEN "store" ELSE "none",
              log |-> e.log,
              db |-> ProcessPdfStore(d, base_game_title, filename, total_pages,
                                     e, doc_type, fault)]

MainIdle(folder) ==
    [pc |-> "idle", folder |-> folder, pdf_files |-> <<>>, idx |-> 0,
     processed_count |-> 0, skipped_count |-> 0, error |-> "none", log |-> <<>>]

OutsideMain == UNCHANGED <<conn, ck, emb, srch, ans, doc, chat>>

\* main() up to the for loop: init_database() creates the tables if they are
\* missing; a missing API key, a missing folder and a folder without PDFs
\* end the run
MainStart ==
    /\ run.pc /= "loop"
    /\ \E config \in {"ok", "no_key", "no_folder"} :
       \E pdf_files \in Listings(PdfNames(run.folder)) :
            run' = IF config /= "ok" \/ pdf_files = <<>>
                    THEN [MainIdle(run.folder) EXCEPT !.pc = "returned"]
                    ELSE [MainIdle(run.folder) EXCEPT !.pc = "loop",
                                                      !.pdf_files = pdf_files]
    /\ UNCHANGED db
    /\ OutsideMain

\* one pass of "for pdf_file in pdf_files": the process_pdf call and the
\* counters; an exception of process_pdf is caught nowhere and ends main
MainProcessPdf ==
    /\ run.pc = "loop"
    /\ run.idx < Len(run.pdf_files)
    /\ \E fault \in Faults :
        LET pdf_file == run.pdf_files[run.idx + 1]
            r == process_pdf(db, pdf_file, run.folder[pdf_file], fault)
        IN  /\ db' = r.db
            /\ run' = [run EXCEPT
                    !.idx = @ + 1,
                    !.error = r.error,
                    !.log = r.log,
                    !.pc = IF r.ret = "raised" THEN "crashed" ELSE @,
                    !.processed_count = IF r.ret = "True" THEN @ + 1 ELSE @,
                    !.skipped_count = IF r.ret = "False" THEN @ + 1 ELSE @]
    /\ OutsideMain

\* the loop is over: the summary is printed and main returns
MainSummary ==
    /\ run.pc = "loop"
    /\ run.idx = Len(run.pdf_files)
    /\ run' = [run EXCEPT !.pc = "done"]
    /\ UNCHANGED db
    /\ OutsideMain

InitMain ==
    /\ InitStore
    /\ run \in {MainIdle(folder) : folder \in Folders}
    /\ ck = <<>> /\ emb = <<>> /\ srch = <<>> /\ chat = <<>> /\ ans = <<>>
    /\ doc = <<>>

NextMain ==
    \/ MainStart
    \/ MainProcessPdf
    \/ MainSummary

SpecMain == InitMain /\ [][NextMain]_vars

----------------------------------------------------------------------------
(* app.py: the vector search and answer_question *)

TOP_K_RESULTS == 5

RECURSIVE DotUpTo(_, _, _)
DotUpTo(a, b, n) == IF n = 0 THEN 0 ELSE a[n] * b[n] + DotUpTo(a, b, n - 1)

\* np.dot(vec1, vec2)
Dot(a, b) == DotUpTo(a, b, Len(a))

\* cosine_similarity(vec1, vec2) = dot / (norm1 * norm2), kept exact as the
\* pair of dot and (norm1 * norm2)^2.  A vector of norm zero makes dot and
\* the product of the norms zero: numpy divides 0.0 by 0.0, warns and
\* returns nan, which is the pair with nn = 0.
cosine_similarity(vec1, vec2) ==
    [dot |-> Dot(vec1, vec2), nn |-> Dot(vec1, vec1) * Dot(vec2, vec2)]

IsNaN(x) == x.nn = 0

\* x < y for two similarities: dot_x / sqrt(nn_x) < dot_y / sqrt(nn_y); every
\* comparison with nan is false
SimLess(x, y) ==
    IF IsNaN(x) \/ IsNaN(y) THEN FALSE
    ELSE IF x.dot >= 0 /\ y.dot >= 0 THEN x.dot * x.dot * y.nn < y.dot * y.dot * x.nn
    ELSE IF x.dot < 0 /\ y.dot < 0 THEN x.dot * x.dot * y.nn > y.dot * y.dot * x.nn
    ELSE x.dot < y.dot

\* list.reverse()
Reversed(s) == [k \in 1..Len(s) |-> s[Len(s) + 1 - k]]

\* list.sort(key=lambda x: x[0]) of CPython for a list of fewer than 64
\* items [sim, chunk]: the run the list starts with is taken as it is, or
\* reversed when it is strictly descending (count_run), and every later item
\* is put into the sorted part by binary insertion (binarysort).  The only
\* comparison is key < key.
RECURSIVE RunLength(_, _, _)
RunLength(s, k, descending) ==
    IF k < Len(s) /\ (SimLess(s[k + 1].sim, s[k].sim) <=> descending)
        THEN RunLength(s, k + 1, descending)
        ELSE k

RECURSIVE InsertAt(_, _, _, _)
InsertAt(s, pivot, l, r) ==
    IF l >= r THEN l
    ELSE LET p == l + ((r - l) \div 2)
         IN  IF SimLess(pivot.sim, s[p].sim) THEN InsertAt(s, pivot, l, p)
             ELSE InsertAt(s, pivot, p + 1, r)

RECURSIVE BinarySort(_, _)
BinarySort(s, start) ==
    IF start > Len(s) THEN s
    ELSE LET l == InsertAt(s, s[start], 1, start)
             moved == [k \in 1..Len(s) |->
                          IF k < l \/ k > start THEN s[k]
                          ELSE IF k = l THEN s[start] ELSE s[k - 1]]
         IN  BinarySort(moved, start + 1)

ListSort(s) ==
    IF Len(s) < 2 THEN s
    ELSE LET descending == SimLess(s[2].sim, s[1].sim)
             n == RunLength(s, 2, descending)
             lst == IF descending
                        THEN Reversed(SubSeq(s, 1, n)) \o SubSeq(s, n + 1, Len(s))
                        ELSE s
         IN  BinarySort(lst, n + 1)

\* list.sort(reverse=True, key=...): the list is reversed, sorted and reversed
\* again, which keeps items of equal key in their order
ListSortReverse_SortsThenReverses(s) == Reversed(ListSort(s))

ListSortReverse(s) == Reversed(ListSort(Reversed(s)))

\* search_chunks(query_embedding, chunks, top_k): the list of (sim, chunk),
\* similarities.sort(reverse=True, key=lambda x: x[0]), and [:top_k]
search_chunks(query_embedding, chunks, top_k) ==
    LET similarities ==
            [k \in 1..Len(chunks) |->
                [sim |-> cosine_similarity(query_embedding, chunks[k].embedding),
                 chunk |-> chunks[k]]]
        sorted == ListSortReverse(similarities)
    IN  [k \in 1..Min2(top_k, Len(chunks)) |-> sorted[k].chunk]

\* the frame of a search_chunks call: its arguments and what it returned
SearchIdle ==
    [pc |-> "idle", query_embedding |-> <<>>, chunks |-> <<>>, top_k |-> 0,
     result |-> <<>>]

MaxSearchChunks == 6    \* chunks handed to one search_chunks call

\* embeddings of chunks: two of them in one direction, which every query
\* scores the same
SearchEmbeddings == {<<1, 0>>, <<2, 0>>, <<1, 1>>}

\* embeddings of questions: chunk similarities above, at and below zero
QueryEmbeddings == {<<1, 0>>, <<0, 1>>, <<-1, 0>>}

\* the chunks of a game as get_game_chunks returns them, in chunk_id order
ChunkListsOf(embeddings, max) ==
    UNION {{[k \in 1..n |-> [chunk_id |-> k - 1, page |-> 1, text |-> <<k>>,
                              embedding |-> e[k], source_type |-> "rulebook"]] :
                e \in [1..n -> embeddings]} : n \in 0..max}

SearchChunkLists == ChunkListsOf(SearchEmbeddings, MaxSearchChunks)

MaxZeroNormChunks == 4    \* chunks of a call that has a vector of norm zero

\* stored vectors and question vectors with the zero vector among them
ZeroNormEmbeddings == {<<0, 0>>, <<1, 0>>, <<1, 1>>}

ZeroNormQueries == {<<0, 0>>, <<1, 0>>}

OutsideSearch == UNCHANGED <<db, conn, ck, run, emb, ans, doc, chat>>

\* search_chunks(question_embedding, chunks): top_k takes its default
SearchCall(queries, lists) ==
    /\ srch.pc = "idle"
    /\ \E query_embedding \in queries, chunks \in lists :
            srch' = [SearchIdle EXCEPT !.pc = "called",
                                       !.query_embedding = query_embedding,
                                       !.chunks = chunks,
                                       !.top_k = TOP_K_RESULTS]
    /\ OutsideSearch

SearchChunksCall == SearchCall(QueryEmbeddings, SearchChunkLists)

\* the call when the service has returned a vector of norm zero
SearchChunksCallZeroNorm ==
    SearchCall(ZeroNormQueries, ChunkListsOf(ZeroNormEmbeddings, MaxZeroNormChunks))

\* the loop, the sort and the return
SearchChunksReturn ==
    /\ srch.pc = "called"
    /\ srch' = [srch EXCEPT
            !.pc = "returned",
            !.result = search_chunks(srch.query_embedding, srch.chunks, srch.top_k)]
    /\ OutsideSearch

InitSearch ==
    /\ InitStore
    /\ srch = SearchIdle
    /\ ck = <<>> /\ run = <<>> /\ emb = <<>> /\ chat = <<>> /\ ans = <<>>
    /\ doc = <<>>

NextSearch ==
    \/ SearchChunksCall
    \/ SearchChunksReturn

SpecSearch == InitSearch /\ [][NextSearch]_vars

NextSearchZeroNorm ==
    \/ SearchChunksCallZeroNorm
    \/ SearchChunksReturn

SpecSearchZeroNorm == InitSearch /\ [][NextSearchZeroNorm]_vars

\* sorted(set(...)) of integers
SortedSet_Descending(S) ==
    [k \in 1..Cardinality(S) |->
        CHOOSE x \in S : Cardinality({y \in S : y > x}) = k - 1]

SortedSet(S) ==
    [k \in 1..Cardinality(S) |->
        CHOOSE x \in S : Cardinality({y \in S : y < x}) = k - 1]

FallbackAnswer == "Sorry, I couldn't find the rulebook for this game in my library."

\* answer_question(question, game_title, ...): the tuple it returns.  The text
\* of the answer is the language model's (llm_answer).
answer_question(d, question, game_title, llm_answer) ==
    LET chunks == get_game_chunks(d, game_title)
        top_chunks == search_chunks(Embedding(question), chunks, TOP_K_RESULTS)
        sources_used == {top_chunks[k].source_type : k \in 1..Len(top_chunks)}
        source_pages == SortedSet({top_chunks[k].page : k \in 1..Len(top_chunks)})
    IN  IF chunks = <<>> THEN <<FallbackAnswer, <<>>>>
        ELSE <<llm_answer, source_pages, sources_used>>

\* setup_keywords
setup_keywords_WithoutSetUp ==
    {<<"s", "e", "t", "u", "p">>,
     <<"s", "t", "a", "r", "t">>,
     <<"b", "e", "g", "i", "n", "n", "i", "n", "g">>,
     <<"p", "r", "e", "p", "a", "r", "e">>,
     <<"h", "o", "w", " ", "t", "o", " ", "p", "l", "a", "y">>,
     <<"g", "e", "t", "t", "i", "n", "g", " ", "s", "t", "a", "r", "t", "e", "d">>}

setup_keywords ==
    {<<"s", "e", "t", "u", "p">>,
     <<"s", "e", "t", " ", "u", "p">>,
     <<"s", "t", "a", "r", "t">>,
     <<"b", "e", "g", "i", "n", "n", "i", "n", "g">>,
     <<"p", "r", "e", "p", "a", "r", "e">>,
     <<"h", "o", "w", " ", "t", "o", " ", "p", "l", "a", "y">>,
     <<"g", "e", "t", "t", "i", "n", "g", " ", "s", "t", "a", "r", "t", "e", "d">>}

\* any(keyword in question.lower() for keyword in setup_keywords)
is_setup_question(question) ==
    \E keyword \in setup_keywords : StrContains(StrLower(question), keyword)

\* the instruction put into the prompt: the numbered walkthrough ("setup") or
\* the direct answer ("direct")
Instruction(question) == IF is_setup_question(question) THEN "setup" ELSE "direct"

\* source_label of a chunk's source_type
SourceLabel(source_type) ==
    IF source_type = "faq" THEN "FAQ"
    ELSE IF source_type = "errata" THEN "Errata"
    ELSE IF source_type = "supplement" THEN "Supplement"
    ELSE "Rulebook"

\* context_parts: label, page and text of every chunk of top_chunks
ContextParts(top_chunks) ==
    [k \in 1..Len(top_chunks) |->
        [label |-> SourceLabel(top_chunks[k].source_type),
         page |-> top_chunks[k].page, text |-> top_chunks[k].text]]

\* generate_game_intro(game_title, ...)
generate_game_intro(d, game_title) ==
    IF get_game_chunks(d, game_title) = <<>>
        THEN "Great! Let's dive into the game. What would you like to know?"
        ELSE "Got it! I'm here to help with the game."

----------------------------------------------------------------------------
(* app.py: main.  Streamlit runs main once per interaction.  chat holds    *)
(* the value load_game_library cached at the first run (st.cache_data),    *)
(* st.session_state (messages, current_game, last_question,                *)
(* last_answer_meta) and how the last run went: the branch it took (turn)  *)
(* and whether it ended in an exception (raised).  current_game is <<>>    *)
(* for None and <<title>> else.  The library is written by other           *)
(* processes while the application runs.                                   *)

MaxMessages == 4     \* messages of one chat session
MaxPresses == 2      \* button presses of one chat session

switch_phrases ==
    {<<"s", "w", "i", "t", "c", "h", " ", "t", "o">>,
     <<"c", "h", "a", "n", "g", "e", " ", "t", "o">>,
     <<"l", "e", "t", "'", "s", " ", "p", "l", "a", "y">>,
     <<"w", "e", "'", "r", "e", " ", "p", "l", "a", "y", "i", "n", "g">>,
     <<"n", "o", "w", " ", "p", "l", "a", "y", "i", "n", "g">>,
     <<"a", "c", "t", "u", "a", "l", "l", "y">>,
     <<"i", "n", "s", "t", "e", "a", "d">>}

\* any(phrase in prompt.lower() for phrase in switch_phrases)
is_switching_game(prompt) ==
    \E phrase \in switch_phrases : StrContains(StrLower(prompt), phrase)

\* what the customer types: "Setup?" and "Actually B"
Prompts ==
    {<<"S", "e", "t", "u", "p", "?">>,
     <<"A", "c", "t", "u", "a", "l", "l", "y", " ", "B">>}

\* the language model's reply to detect_game when it names no game
NoneReply == <<"N", "O", "N", "E">>

\* detect_game(message, available_games, ...): the reply if it is in the list
detect_game(reply, available_games) ==
    IF reply \in available_games THEN <<reply>> ELSE <<>>

\* the language model's answers to a rules question
LlmAnswers ==
    {"You place the board first (p. 1).",
     "I don't see that information. Would you like me to request staff assistance?"}

GeneralResponse == "Which game are you playing?"

\* load_game_library(): the titles of get_all_games()
load_game_library(d) == {g.title : g \in d.games}

ChatStart ==
    [pc |-> "start", game_library |-> {}, messages |-> <<>>, current_game |-> <<>>,
     last_question |-> <<>>, last_answer_meta |-> {}, turn |-> "none",
     raised |-> FALSE, staff_pings |-> <<>>]

\* answer, pages, sources_used = answer_question(...) and what follows it:
\* unpacking a tuple that has not three values raises ValueError
AnswerTurn(s, d, prompt, llm_answer) ==
    LET result == answer_question(d, prompt, s.current_game[1], llm_answer)
    IN  IF Len(result) /= 3
            THEN [s EXCEPT !.turn = "answer", !.raised = TRUE]
            ELSE [s EXCEPT !.turn = "answer",
                           !.last_answer_meta = result[3],
                           !.messages = Append(@, [role |-> "assistant",
                                                   content |-> result[1],
                                                   pages |-> result[2]])]

\* the run of main that handles a chat input
ChatTurn(s, d, prompt, reply, llm_answer) ==
    LET s1 == [s EXCEPT !.last_question = prompt, !.raised = FALSE,
                        !.messages = Append(@, [role |-> "user", content |-> prompt])]
        should_detect_game == s.current_game = <<>> \/ is_switching_game(prompt)
        detected_game == detect_game(reply, s.game_library)
    IN  IF ~should_detect_game THEN AnswerTurn(s1, d, prompt, llm_answer)
        ELSE IF detected_game /= <<>> /\ detected_game /= s.current_game
            THEN [s1 EXCEPT !.turn = "intro", !.current_game = detected_game,
                            !.messages =
                                Append(@, [role |-> "assistant",
                                           content |->
                                               generate_game_intro(d, detected_game[1])])]
        ELSE IF detected_game /= <<>> THEN AnswerTurn(s1, d, prompt, llm_answer)
        ELSE [s1 EXCEPT !.turn = "general",
                        !.messages = Append(@, [role |-> "assistant",
                                                content |-> GeneralResponse])]

\* send_staff_ping's reply and the text main appends when the customer
\* declines
StaffNotified == "Staff notified! Someone will be with you shortly."
DeclinedReply ==
    "No problem! The physical rulebook at your table might have more details."

\* "request staff assistance?" in content.lower(), for the texts main appends:
\* of the language model's answers, the greetings, the fallback answer and
\* the two replies to a button only the answer that offers help has it
ContainsStaffOffer(content) ==
    content = "I don't see that information. Would you like me to request staff assistance?"

\* "(ok) " + message stands for the check mark main puts before the reply
CheckMarked(message) ==
    IF message = StaffNotified
        THEN "(ok) Staff notified! Someone will be with you shortly."
        ELSE message

\* send_staff_ping(table_id, game_title, question, reason): what it prints and
\* the value it returns
send_staff_ping(table_id, game_title, question, reason) ==
    [printed |-> [table_id |-> table_id, game_title |-> game_title,
                  question |-> question, reason |-> reason],
     result |-> [success |-> TRUE, message |-> StaffNotified]]

\* message.get("staff_requested")
StaffRequested(message) ==
    IF "staff_requested" \in DOMAIN message THEN message.staff_requested ELSE "None"

\* message[key] = value
SetKey(message, key, value) ==
    [k \in DOMAIN message \cup {key} |-> IF k = key THEN value ELSE message[k]]

\* the two buttons are shown under message idx (counted from 1)
StaffButtonsShown(s, idx) ==
    /\ s.messages[idx].role = "assistant"
    /\ ContainsStaffOffer(s.messages[idx].content)
    /\ StaffRequested(s.messages[idx]) /= "True"

\* st.session_state.messages[idx]["staff_requested"] = True
StaffYesMark_Declined(messages, idx) ==
    [messages EXCEPT ![idx] = SetKey(@, "staff_requested", "declined")]

StaffYesMark(messages, idx) ==
    [messages EXCEPT ![idx] = SetKey(@, "staff_requested", "True")]

\* the run of main in which "Yes, get help" of message idx was pressed; the
\* log keeps what send_staff_ping printed with the button it was called for
StaffYes(s, idx) ==
    LET ping == send_staff_ping(
                    "Unknown",
                    IF s.current_game = <<>> THEN <<"U", "n", "k", "n", "o", "w", "n">>
                                             ELSE s.current_game[1],
                    IF s.last_question = <<>> THEN <<"H", "e", "l", "p">>
                                              ELSE s.last_question,
                    "rules_question")
    IN  [s EXCEPT !.turn = "staff_yes", !.raised = FALSE,
                  !.staff_pings = Append(@, [button |-> idx, printed |-> ping.printed]),
                  !.messages =
                      Append(StaffYesMark(@, idx),
                             [role |-> "assistant",
                              content |-> CheckMarked(ping.result.message)])]

\* the run of main in which "Check manual" of message idx was pressed
StaffNo(s, idx) ==
    [s EXCEPT !.turn = "staff_no", !.raised = FALSE,
              !.messages =
                  Append([@ EXCEPT ![idx] = SetKey(@, "staff_requested", "declined")],
                         [role |-> "assistant", content |-> DeclinedReply])]

OutsideChat == UNCHANGED <<conn, ck, run, emb, srch, ans, doc>>

\* a run of main with a press of "Yes, get help"; the history, and with it the
\* buttons, is shown only when the library is not empty
ChatStaffYes ==
    /\ chat.pc = "ready"
    /\ chat.game_library /= {}
    /\ Len(chat.messages) + 1 <= MaxMessages + MaxPresses
    /\ \E idx \in 1..Len(chat.messages) :
            /\ StaffButtonsShown(chat, idx)
            /\ chat' = StaffYes(chat, idx)
    /\ UNCHANGED db
    /\ OutsideChat

\* a run of main with a press of "Check manual"
ChatStaffNo ==
    /\ chat.pc = "ready"
    /\ chat.game_library /= {}
    /\ Len(chat.messages) + 1 <= MaxMessages + MaxPresses
    /\ \E idx \in 1..Len(chat.messages) :
            /\ StaffButtonsShown(chat, idx)
            /\ chat' = StaffNo(chat, idx)
    /\ UNCHANGED db
    /\ OutsideChat


\* the first run of main: the library is loaded and cached, the session state
\* is initialised
ChatLoadLibrary ==
    /\ chat.pc = "start"
    /\ chat' = [chat EXCEPT !.pc = "ready", !.game_library = load_game_library(db)]
    /\ UNCHANGED db
    /\ OutsideChat

\* a run of main with a chat input; with an empty library main returns before
\* the chat input is shown
ChatInput ==
    /\ chat.pc = "ready"
    /\ chat.game_library /= {}
    /\ Len(chat.messages) + 2 <= MaxMessages
    /\ \E prompt \in Prompts, reply \in chat.game_library \cup {NoneReply},
          llm_answer \in LlmAnswers :
            chat' = ChatTurn(chat, db, prompt, reply, llm_answer)
    /\ UNCHANGED db
    /\ OutsideChat

\* another process deletes a game while the application runs
LibraryDeleteGame ==
    /\ \E title \in load_game_library(db) : db' = DeleteGameRun(db, title)
    /\ UNCHANGED chat
    /\ OutsideChat

\* the library a run of main leaves of a folder of readable files
RECURSIVE IngestFrom(_, _, _, _)
IngestFrom(d, folder, pdf_files, i) ==
    IF i > Len(pdf_files) THEN d
    ELSE IngestFrom(process_pdf(d, pdf_files[i], folder[pdf_files[i]], NoFault).db,
                    folder, pdf_files, i + 1)

ChatLibraries ==
    {IngestFrom(EmptyDb, folder, CHOOSE l \in Listings(PdfNames(folder)) : TRUE, 1) :
        folder \in {f \in Folders : \A n \in PdfNames(f) : f[n].readable}}

InitChat ==
    /\ db \in ChatLibraries
    /\ conn = [c \in Conns |-> IdleFrame]
    /\ chat = ChatStart
    /\ ck = <<>> /\ run = <<>> /\ emb = <<>> /\ srch = <<>> /\ ans = <<>>
    /\ doc = <<>>

NextChat ==
    \/ ChatLoadLibrary
    \/ ChatInput
    \/ ChatStaffYes
    \/ ChatStaffNo
    \/ LibraryDeleteGame

SpecChat == InitChat /\ [][NextChat]_vars

----------------------------------------------------------------------------
(* app.py: answer_question step by step.  ans is the frame of the call:    *)
(* its arguments, the context and the instruction it put into the prompt   *)
(* of the language model, and the tuple it returned.                       *)

AnswerIdle ==
    [pc |-> "idle", question |-> <<>>, game_title |-> <<>>, context |-> <<>>,
     instruction |-> "none", ret |-> <<>>]

MaxFragments == 2    \* pieces a question is put together from

\* pieces of questions: keywords in upper and lower case, whole and in halves
QuestionFragments ==
    {<<"S", "e", "t">>,
     <<"S", "e", "t", " ">>,
     <<"u", "p">>,
     <<"S", "T", "A", "R", "T">>,
     <<"P", "r", "e", "p", "a", "r", "e">>,
     <<"H", "o", "w", " ", "t", "o", " ">>,
     <<"p", "l", "a", "y">>,
     <<"B", "e", "g", "i", "n", "n", "i", "n", "g">>}

RECURSIVE Concat(_)
Concat(parts) == IF parts = <<>> THEN <<>> ELSE Head(parts) \o Concat(Tail(parts))

Questions ==
    UNION {{Concat(parts) : parts \in [1..n -> QuestionFragments]} :
                n \in 0..MaxFragments}

\* the libraries of the calls: a rulebook of any of the readable files and a
\* FAQ of two pages, both of one game
AnswerLibraries ==
    {IngestFrom(EmptyDb, folder, CHOOSE l \in Listings(PdfNames(folder)) : TRUE, 1) :
        folder \in {f \in Folders :
                        /\ Cardinality(PdfNames(f)) = 2
                        /\ Cardinality({extract_game_title_from_filename(n) :
                                            n \in PdfNames(f)}) = 1
                        /\ \A n \in PdfNames(f) : f[n].readable
                        /\ \E n \in PdfNames(f) :
                            /\ get_document_type(n) = "faq"
                            /\ Len(f[n].lens) = 2}}

OutsideAnswer == UNCHANGED <<db, conn, ck, run, emb, srch, doc, chat>>

\* answer_question(question, game_title, ...)
AnswerQuestionCall ==
    /\ ans.pc = "idle"
    /\ \E question \in Questions,
          game_title \in load_game_library(db) \cup {<<"Z">>} :
            ans' = [AnswerIdle EXCEPT !.pc = "called", !.question = question,
                                      !.game_title = game_title]
    /\ OutsideAnswer

\* if not chunks: return the fallback
AnswerQuestionFallback ==
    /\ ans.pc = "called"
    /\ get_game_chunks(db, ans.game_title) = <<>>
    /\ ans' = [ans EXCEPT !.pc = "returned",
                          !.ret = answer_question(db, ans.question, ans.game_title,
                                                  FallbackAnswer)]
    /\ OutsideAnswer

\* the search, the context, the instruction and the prompt
AnswerQuestionPrompt ==
    /\ ans.pc = "called"
    /\ get_game_chunks(db, ans.game_title) /= <<>>
    /\ ans' = [ans EXCEPT
            !.pc = "prompted",
            !.context = ContextParts(search_chunks(Embedding(ans.question),
                                                   get_game_chunks(db, ans.game_title),
                                                   TOP_K_RESULTS)),
            !.instruction = Instruction(ans.question)]
    /\ OutsideAnswer

\* the language model's answer and the return
AnswerQuestionReturn ==
    /\ ans.pc = "prompted"
    /\ \E llm_answer \in LlmAnswers :
            ans' = [ans EXCEPT !.pc = "returned",
                              !.ret = answer_question(db, ans.question,
                                                      ans.game_title, llm_answer)]
    /\ OutsideAnswer

InitAnswer ==
    /\ db \in AnswerLibraries
    /\ conn = [c \in Conns |-> IdleFrame]
    /\ ans = AnswerIdle
    /\ ck = <<>> /\ run = <<>> /\ emb = <<>> /\ srch = <<>> /\ chat = <<>>
    /\ doc = <<>>

NextAnswer ==
    \/ AnswerQuestionCall
    \/ AnswerQuestionFallback
    \/ AnswerQuestionPrompt
    \/ AnswerQuestionReturn

SpecAnswer == InitAnswer /\ [][NextAnswer]_vars

----------------------------------------------------------------------------
(* process_rulebooks.py: get_document_type, called with the name of a file *)
(* of the rulebooks folder.                                                *)

\* the frame of a get_document_type call: the filename and what it returned
DocIdle == [pc |-> "idle", filename |-> <<>>, ret |-> "none"]

MaxNameParts == 2    \* pieces a filename is put together from

\* pieces of filenames: the keywords in both cases, whole and in halves
NameParts ==
    {<<"F", "A", "Q">>,
     <<"f", ".", "a">>,
     <<"F", ".", "A", ".", "Q">>,
     <<".", "q">>,
     <<"E", "r", "r", "a", "t", "a">>,
     <<"R", "u", "l", "e", "b", "o", "o", "k">>,
     <<"r", "u", "l", "e">>,
     <<"s">>,
     <<"g", "a", "m", "e", "-">>}

RECURSIVE JoinParts(_)
JoinParts(parts) ==
    IF parts = <<>> THEN <<>> ELSE Head(parts) \o JoinParts(Tail(parts))

DocFilenames ==
    UNION {{JoinParts(parts) \o Ext : parts \in [1..n -> NameParts]} :
                n \in 0..MaxNameParts}

OutsideDoc == UNCHANGED <<db, conn, ck, run, emb, srch, ans, chat>>

GetDocumentTypeCall ==
    /\ doc.pc = "idle"
    /\ \E filename \in DocFilenames :
            doc' = [DocIdle EXCEPT !.pc = "called", !.filename = filename]
    /\ OutsideDoc

GetDocumentTypeReturn ==
    /\ doc.pc = "called"
    /\ doc' = [doc EXCEPT !.pc = "returned", !.ret = get_document_type(doc.filename)]
    /\ OutsideDoc

InitDoc ==
    /\ doc = DocIdle
    /\ InitStore
    /\ ck = <<>> /\ run = <<>> /\ emb = <<>> /\ srch = <<>> /\ ans = <<>>
    /\ chat = <<>>

NextDoc ==
    \/ GetDocumentTypeCall
    \/ GetDocumentTypeReturn

SpecDoc == InitDoc /\ [][NextDoc]_vars

----------------------------------------------------------------------------
(* Claims about the chunk store *)

\* a step in which the add_game call on connection c commits and returns
AddGameCommits(c) == conn[c].pc = "commit" /\ conn'[c].ret = "returned"

(* C1: add_game invoked with a filename that is already recorded in        *)
(* processed_files is a no-op: nothing it does changes the stored games,   *)
(* chunks or processed files.                                              *)
C1_RepeatedFilenameIsNoOp ==
    [][\A c \in Conns :
        (/\ Active(c)
         /\ conn[c].op = "add"
         /\ file_already_processed(db, conn[c].filename))
        => db' = db]_vars

(* C2: add_game with a new filename and a title that already exists adds   *)
(* the batch's page count and chunk count to that game's totals, keeps the *)
(* game row (same id, no other game touched), keeps every chunk row that   *)
(* was stored, and adds one chunk row of that game per chunk of the batch. *)
C2_MergeAddsBatchCounts ==
    [][\A c \in Conns :
        (/\ AddGameCommits(c)
         /\ game_exists(db, conn[c].title)
         /\ ~file_already_processed(db, conn[c].filename))
        => LET f == conn[c]
               old == SelectGame(db, f.title)[1]
           IN  /\ db'.games = (db.games \ {old}) \cup
                     {[old EXCEPT !.total_pages = @ + f.total_pages,
                                  !.total_chunks = @ + Len(f.batch)]}
               /\ db.chunks \subseteq db'.chunks
               /\ Cardinality(db'.chunks \ db.chunks) = Len(f.batch)
               /\ \A r \in db'.chunks \ db.chunks : r.game_id = old.id
               /\ conn'[c].game_id = old.id]_vars

\* a merge has committed: a game with two recorded files and two chunks
C2_Witness ==
    \E g \in db.games :
        /\ Cardinality({f \in db.files : f.game_id = g.id}) = 2
        /\ g.total_chunks = 2
        /\ Cardinality({r \in db.chunks : r.game_id = g.id}) = 2
        /\ conn["c1"].op = "add" /\ conn["c1"].ret = "returned"
        /\ conn["c1"].game_id = g.id

(* C3: a call of add_game or delete_game that raises leaves the committed  *)
(* store as it was: the raising step changes nothing, and nothing but the  *)
(* commit of a call that returns ever changes the store.                   *)
C3_FailedCallLeavesStoreUnchanged ==
    [][/\ \A c \in Conns : (Active(c) /\ conn'[c].ret = "raised") => db' = db
       /\ db' /= db =>
            \E c \in Conns : /\ conn[c].pc \in {"commit", "d_commit"}
                             /\ conn'[c].ret = "returned"]_vars

\* add_game has raised on its second chunk insert, after a game row and a
\* chunk row were written inside the transaction
C3_Witness ==
    /\ conn["c1"].op = "add" /\ conn["c1"].ret = "raised" /\ conn["c1"].i = 2
    /\ db.games /= {}

(* C4: with two add_game calls for the same existing title interleaved, no *)
(* counter update is lost: every call that commits leaves the game's       *)
(* total_pages and total_chunks at the committed totals plus its batch's.  *)
C4_NoLostCounterUpdate ==
    [][\A c \in Conns :
        (/\ AddGameCommits(c)
         /\ conn[c].existing /= <<>>
         /\ SelectGame(db, conn[c].title) /= <<>>
         /\ SelectGame(db, conn[c].title)[1].id = conn[c].game_id)
        => LET f == conn[c]
               cur == SelectGame(db, f.title)[1]
               new == SelectGame(db', f.title)[1]
           IN  /\ new.total_pages = cur.total_pages + f.total_pages
               /\ new.total_chunks = cur.total_chunks + Len(f.batch)]_vars

----------------------------------------------------------------------------
(* Claims about chunk_text *)

\* ceil(a / b) for a >= 0 and b > 0
CeilDiv(a, b) == (a + b - 1) \div b

\* the places in chunks of the chunks cut from page number n
ChunksOfPage(f, n) == {i \in 1..Len(f.chunks) : f.chunks[i].page = n}

\* a call with overlap < chunk_size has returned
ChunkDone == ck.pc = "done" /\ ck.overlap < ck.chunk_size

(* C5, as the spec states it: a page of L tokens gives                     *)
(* ceil(max(L - O, 0) / (S - O)) chunks, and 1 chunk whenever 0 < L <= S.  *)
C5_CountAsStated ==
    ChunkDone =>
        \A k \in 1..Len(ck.pages) :
            LET L == Len(ck.pages[k].tokens)
                S == ck.chunk_size
                O == ck.overlap
                count == Cardinality(ChunksOfPage(ck, ck.pages[k].page))
            IN  /\ count = CeilDiv(Max2(L - O, 0), S - O)
                /\ (0 < L /\ L <= S) => count = 1

(* C5, amended: for 0 <= O < S a page of L tokens gives exactly            *)
(* ceil(L / (S - O)) chunks, one for every window start 0, S-O, 2(S-O),    *)
(* ... below L, and so exactly 1 chunk whenever 0 < L <= S - O.            *)
C5_ChunkCount ==
    ChunkDone =>
        \A k \in 1..Len(ck.pages) :
            LET L == Len(ck.pages[k].tokens)
                S == ck.chunk_size
                O == ck.overlap
                count == Cardinality(ChunksOfPage(ck, ck.pages[k].page))
            IN  /\ count = CeilDiv(L, S - O)
                /\ (0 < L /\ L <= S - O) => count = 1

\* a page of 4 tokens cut with chunk_size 3 and overlap 1 has given 2 chunks
C5_Witness ==
    /\ ChunkDone
    /\ ck.chunk_size = 3 /\ ck.overlap = 1
    /\ Len(ck.pages) = 1 /\ Len(ck.pages[1].tokens) = 4
    /\ Len(ck.chunks) = 2

\* chunks i and i+1 are consecutive chunks of one page
SamePagePair(f, i) == i + 1 <= Len(f.chunks) /\ f.chunks[i].page = f.chunks[i + 1].page

(* C6, as the spec states it: two consecutive chunks of a page overlap by  *)
(* exactly O tokens, the last O tokens of the earlier chunk being the      *)
(* first O tokens of the later chunk.                                      *)
C6_OverlapAsStated ==
    (ck.pc /= "idle" /\ ck.overlap < ck.chunk_size) =>
        \A i \in 1..Len(ck.chunks) :
            SamePagePair(ck, i) =>
                LET a == ck.chunks[i].text
                    b == ck.chunks[i + 1].text
                    O == ck.overlap
                IN  /\ Len(a) >= O /\ Len(b) >= O
                    /\ SubSeq(a, Len(a) - O + 1, Len(a)) = SubSeq(b, 1, O)

(* C6, amended: for 0 <= O < S, of two consecutive chunks of a page the    *)
(* later one is not empty.  When it has at least O tokens, the earlier     *)
(* chunk has S tokens and its last O tokens are the first O tokens of the  *)
(* later chunk; when it has fewer than O tokens, it is the end of the      *)
(* earlier chunk (the tokens from place S - O + 1 on) and the two share    *)
(* only those.                                                             *)
C6_Overlap ==
    (ck.pc /= "idle" /\ ck.overlap < ck.chunk_size) =>
        \A i \in 1..Len(ck.chunks) :
            SamePagePair(ck, i) =>
                LET a == ck.chunks[i].text
                    b == ck.chunks[i + 1].text
                    S == ck.chunk_size
                    O == ck.overlap
                IN  /\ Len(b) >= 1
                    /\ IF Len(b) >= O
                          THEN /\ Len(a) = S
                               /\ SubSeq(a, S - O + 1, S) = SubSeq(b, 1, O)
                          ELSE b = SubSeq(a, S - O + 1, Len(a))

\* both cases have happened on one page: 4 tokens, chunk_size 3, overlap 2
\* give the windows 1-3, 2-4, 3-4 and 4
C6_Witness ==
    /\ ChunkDone
    /\ ck.chunk_size = 3 /\ ck.overlap = 2
    /\ Len(ck.pages) = 1 /\ Len(ck.pages[1].tokens) = 4
    /\ Len(ck.chunks) = 4
    /\ Len(ck.chunks[2].text) = 3 /\ Len(ck.chunks[4].text) = 1

(* C7: chunk_text ends for every chunk_size and overlap: a call whose      *)
(* overlap is not below its chunk_size is rejected and cuts no window, and *)
(* every pass of the while loop moves the window start forward.            *)
C7_RejectsOrAdvances ==
    [][(ck.pc = "while" /\ ck'.pc = "while" /\ ck' /= ck) =>
            (ck.overlap < ck.chunk_size /\ ck'.start > ck.start)]_vars

(* C8: the i-th chunk of the list has chunk_id i - 1, counted across the   *)
(* pages of the call; every chunk is a run of consecutive tokens of one    *)
(* page and carries that page's number; chunks are in page order; a page   *)
(* without tokens has no chunk.                                            *)
C8_ChunkIdsAndPages ==
    \A i \in 1..Len(ck.chunks) :
        LET c == ck.chunks[i]
        IN  /\ c.chunk_id = i - 1
            /\ \E k \in 1..ck.p :
                    /\ ck.pages[k].page = c.page
                    /\ Len(ck.pages[k].tokens) > 0
                    /\ \E lo \in 0..Len(ck.pages[k].tokens) :
                            c.text = SubSeq(ck.pages[k].tokens, lo + 1, lo + Len(c.text))
            /\ \A t \in Range(c.text) : t[1] = c.page
            /\ \A j \in 1..(i - 1) : ck.chunks[j].page <= c.page

\* an empty first page and a second page cut into two chunks numbered 0 and 1
C8_Witness ==
    /\ ck.pc = "done"
    /\ Len(ck.pages) = 2
    /\ Len(ck.pages[1].tokens) = 0 /\ Len(ck.pages[2].tokens) = 4
    /\ Len(ck.chunks) = 2
    /\ ck.chunks[1].page = 2 /\ ck.chunks[2].chunk_id = 1

----------------------------------------------------------------------------
(* Claims about the chat application *)

(* C9: a question about a game whose title the store does not know, or     *)
(* whose game has no chunk, ends the chat turn with the fallback answer    *)
(* and no cited page; neither answer_question nor the code that takes its  *)
(* result raises.                                                          *)
C9_UnknownOrEmptyGameGetsFallback ==
    [][(/\ Len(chat'.messages) > Len(chat.messages)
        /\ chat'.turn = "answer"
        /\ get_game_chunks(db, chat'.current_game[1]) = <<>>)
       => (/\ ~chat'.raised
           /\ chat'.messages[Len(chat'.messages)] =
                  [role |-> "assistant", content |-> FallbackAnswer,
                   pages |-> <<>>])]_vars

----------------------------------------------------------------------------
(* Claims about the ingestion run *)

(* C10: when extracting or ingesting one file fails during a processing    *)
(* run, only that file is given up: the run goes on to every remaining     *)
(* file, so a run that has ended has called process_pdf for every file of  *)
(* its list.                                                               *)
C10_FailureAbortsOnlyThatFile ==
    run.pc \in {"done", "crashed"} => run.idx = Len(run.pdf_files)

----------------------------------------------------------------------------
(* Claims about create_embeddings *)

(* C11: within create_embeddings every two consecutive calls of the        *)
(* embedding service are separated by a wait: RATE_LIMIT_DELAY between a   *)
(* batch and the next batch, twice that between a failed attempt and its   *)
(* retry, whatever batches fail.                                           *)
C11_WaitBetweenCalls ==
    \A k \in 1..(Len(emb.log) - 1) :
        emb.log[k].ev = "embed" =>
            /\ emb.log[k + 1].ev = "sleep"
            /\ k + 2 <= Len(emb.log) =>
                    /\ emb.log[k + 2].ev = "embed"
                    /\ emb.log[k + 1].secs =
                            IF emb.log[k + 2].attempt = 2
                                THEN 2 * RATE_LIMIT_DELAY ELSE RATE_LIMIT_DELAY

\* the places in the log of the service calls made for batch number b
CallsOfBatch(b) == {k \in 1..Len(emb.log) : emb.log[k].ev = "embed" /\ emb.log[k].batch = b}

(* C12: create_embeddings calls the service at most twice for one batch.   *)
(* A first attempt that failed is followed, after the wait, by one retry   *)
(* of the same batch and a first attempt that succeeded by none; when the  *)
(* retry fails too the call raises and attempts no later batch.            *)
C12_AtMostOneRetry ==
    /\ \A b \in 1..(Len(emb.chunks) + 1) : Cardinality(CallsOfBatch(b)) <= 2
    /\ \A k \in 1..Len(emb.log) :
        LET c == emb.log[k]
        IN  c.ev = "embed" =>
              /\ (c.attempt = 1 /\ c.ok) =>
                    \A j \in CallsOfBatch(c.batch) : j = k
              /\ (c.attempt = 1 /\ ~c.ok) =>
                    \/ k = Len(emb.log) /\ emb.pc = "retry_sleep"
                    \/ k + 1 = Len(emb.log) /\ emb.pc = "retry"
                    \/ /\ k + 2 <= Len(emb.log)
                       /\ emb.log[k + 2].ev = "embed"
                       /\ emb.log[k + 2].attempt = 2
                       /\ emb.log[k + 2].batch = c.batch
              /\ c.attempt = 2 =>
                    /\ k > 2
                    /\ emb.log[k - 2].ev = "embed" /\ emb.log[k - 2].attempt = 1
                    /\ emb.log[k - 2].batch = c.batch /\ ~emb.log[k - 2].ok
                    /\ ~c.ok => (k = Len(emb.log) /\ emb.pc = "raised")
    /\ emb.pc = "raised" =>
            (emb.log /= <<>> /\ emb.log[Len(emb.log)].attempt = 2
                             /\ ~emb.log[Len(emb.log)].ok)

\* the retry of the first of two batches has failed: the call has raised with
\* two calls made for batch 1 and none for batch 2
C12_Witness ==
    /\ emb.pc = "raised"
    /\ Len(emb.chunks) > batch_size
    /\ Cardinality(CallsOfBatch(1)) = 2
    /\ CallsOfBatch(2) = {}

(* C14: when create_embeddings returns, every chunk has an embedding and   *)
(* the i-th chunk holds the vector the service returned for the i-th text, *)
(* whatever first attempts failed and were retried; the chunks are         *)
(* otherwise as they were handed over.                                     *)
C14_EmbeddingsInOrder ==
    emb.pc = "returned" =>
        /\ Len(emb.all_embeddings) = Len(emb.chunks)
        /\ \A k \in 1..Len(emb.chunks) :
            /\ DOMAIN emb.chunks[k] = {"text", "page", "chunk_id", "embedding"}
            /\ emb.chunks[k].embedding = Embedding(emb.chunks[k].text)
            /\ emb.chunks[k].text = EmbedChunks(Len(emb.chunks))[k].text
            /\ emb.chunks[k].chunk_id = k - 1

\* a call with two batches has returned, the first batch embedded by its retry
C14_Witness ==
    /\ emb.pc = "returned"
    /\ Len(emb.chunks) > batch_size
    /\ Cardinality(CallsOfBatch(1)) = 2
    /\ Cardinality(CallsOfBatch(2)) = 1
    /\ emb.chunks[Len(emb.chunks)].embedding = <<Len(emb.chunks), 1>>

----------------------------------------------------------------------------
(* Claims about process_pdf *)

\* a step of main in which process_pdf is called for a file
ProcessPdfStep == run.pc = "loop" /\ run'.idx = run.idx + 1

\* the create_embeddings call of the last process_pdf call ended with a retry
\* that failed
EmbeddingFailed(r) ==
    /\ r.error = "embed"
    /\ r.log /= <<>>
    /\ r.log[Len(r.log)].ev = "embed"
    /\ r.log[Len(r.log)].attempt = 2 /\ ~r.log[Len(r.log)].ok

(* C13: when an embedding batch fails on its first attempt and on its      *)
(* retry while process_pdf ingests a file, the store is left as it was     *)
(* before the call: no game row created or updated, no chunk row, no       *)
(* processed-file record, however many earlier batches succeeded.          *)
C13_EmbeddingFailureLeavesStore ==
    [][(ProcessPdfStep /\ EmbeddingFailed(run')) => db' = db]_vars

\* the second batch of a file has failed twice after the first had succeeded
C13_Witness ==
    /\ run.pc = "crashed"
    /\ EmbeddingFailed(run)
    /\ run.log[Len(run.log)].batch = 2
    /\ run.log[1].ev = "embed" /\ run.log[1].batch = 1 /\ run.log[1].ok

\* the processed_files rows of a filename
RecordsOf(d, filename) == {f \in d.files : f.filename = filename}

(* C15: process_pdf called on a file whose filename is recorded in         *)
(* processed_files returns False without a call of the embedding service   *)
(* and leaves games, chunks and processed_files as they were; and in every *)
(* reachable state a filename occurs in processed_files at most once.      *)
C15_ProcessedFileIsSkipped ==
    /\ [](\A f \in db.files : Cardinality(RecordsOf(db, f.filename)) = 1)
    /\ [][(ProcessPdfStep /\ RecordsOf(db, run.pdf_files[run.idx + 1]) /= {})
            => /\ db' = db
               /\ run'.log = <<>>
               /\ run'.pc = "loop"
               /\ run'.skipped_count = run.skipped_count + 1
               /\ run'.processed_count = run.processed_count]_vars

\* a later run of main has met a file that an earlier run had ingested
C15_Witness ==
    /\ run.pc = "loop"
    /\ run.skipped_count > 0
    /\ RecordsOf(db, run.pdf_files[run.idx]) /= {}

----------------------------------------------------------------------------
(* Claims about the rows of games and chunks under add_game and delete_game *)

\* the games rows of a title, compared as the column is: exactly
GamesTitled(d, title) == {g \in d.games : g.title = title}

GameIds(d) == {g.id : g \in d.games}

(* C16: in every state reached by add_game and delete_game calls the games *)
(* table holds at most one row of a title; an add_game call for a title    *)
(* that has a row never reaches the INSERT INTO games, writes no new game  *)
(* row and returns the id of the row that was there.                       *)
C16_OneRowPerTitle ==
    /\ \A g \in db.games : GamesTitled(db, g.title) = {g}
    /\ \A c \in SeqConns :
        /\ conn[c].pc = "insert_game" => GamesTitled(db, conn[c].title) = {}
        /\ (conn[c].pc = "commit" /\ GamesTitled(db, conn[c].title) /= {})
            => /\ \A g \in GamesTitled(db, conn[c].title) : conn[c].game_id = g.id
               /\ GameIds(conn[c].tx[1]) = GameIds(db)
               /\ \A g \in conn[c].tx[1].games : GamesTitled(conn[c].tx[1], g.title) = {g}

\* an add_game call for a title that has a row is about to commit, with
\* another game in the table
C16_Witness ==
    /\ conn["c1"].pc = "commit"
    /\ GamesTitled(db, conn["c1"].title) /= {}
    /\ Cardinality(db.games) = 2

\* a step in which a delete_game call returns
DeleteGameReturns(c) ==
    /\ conn[c].pc \in {"d_select", "d_commit"}
    /\ conn'[c].pc = "idle"
    /\ conn'[c].ret = "returned"

(* C17: delete_game(title) returns True exactly when a game with the title *)
(* existed before the call; after the call game_exists(title) is false,    *)
(* get_game_chunks(title) is absent and no chunk row of that game is left; *)
(* when it returns False the store is unchanged; the rows of every other   *)
(* game are as before in both cases.                                       *)
C17_DeleteGame ==
    [][\A c \in SeqConns : DeleteGameReturns(c) =>
        LET title == conn[c].title
            ids == {g.id : g \in GamesTitled(db, title)}
        IN  /\ conn'[c].found = (GamesTitled(db, title) /= {})
            /\ ~game_exists(db', title)
            /\ get_game_chunks(db', title) = <<>>
            /\ \A ch \in db'.chunks : ch.game_id \notin ids
            /\ ~conn'[c].found => db' = db
            /\ db'.games = db.games \ GamesTitled(db, title)
            /\ db'.chunks = {ch \in db.chunks : ch.game_id \notin ids}]_vars

\* delete_game has returned True for a game that had a chunk, and another
\* game with a chunk is in the store
C17_Witness ==
    /\ conn["c1"].op = "delete" /\ conn["c1"].ret = "returned" /\ conn["c1"].found
    /\ db.seq_games = 2 /\ Cardinality(db.games) = 1
    /\ db.seq_chunks = 2 /\ Cardinality(db.chunks) = 1

(* C18: in every state reached by add_game and delete_game calls, the      *)
(* calls that fail and roll back included, the game_id of every chunk row  *)
(* is the id of a games row; and a game row that is created finds no chunk *)
(* row with its id, so no chunk of a deleted game comes back with a later  *)
(* game.                                                                   *)
C18_ChunksBelongToGames ==
    /\ [](\A ch \in db.chunks : ch.game_id \in GameIds(db))
    /\ [][\A g \in db'.games : g.id \notin GameIds(db)
            => \A ch \in db.chunks : ch.game_id /= g.id]_vars

\* a game with a chunk was deleted, its title was ingested again and got a
\* new id; a call has failed and was rolled back
C18_Witness ==
    /\ conn["c1"].ret = "raised"
    /\ db.seq_games = 2
    /\ GameIds(db) = {2}
    /\ db.seq_chunks = 2
    /\ \E ch \in db.chunks : ch.id = 2

\* a title no file of the folder gives
UnknownTitle == <<"Z">>

(* C19: get_game_chunks on a title that has no games row returns the       *)
(* absent result, in every reachable state of the store, also when the     *)
(* title's game has been deleted and the chunks of another game are there. *)
C19_UnknownTitleGivesNone ==
    \A title \in StoreTitles \cup {UnknownTitle} :
        GamesTitled(db, title) = {} => get_game_chunks(db, title) = <<>>

\* a title was ingested and deleted, and another game has a chunk
C19_Witness ==
    /\ \E f \in db.files :
            GamesTitled(db, extract_game_title_from_filename(f.filename)) = {}
    /\ db.chunks /= {}

----------------------------------------------------------------------------
(* Claims about search_chunks *)

\* the similarity search_chunks computes for a chunk of the call
SimOf(chunk) == cosine_similarity(srch.query_embedding, chunk.embedding)

SameSim(a, b) == ~SimLess(SimOf(a), SimOf(b)) /\ ~SimLess(SimOf(b), SimOf(a))

\* the place of a chunk in the list the call was given
InputPos(chunk) == CHOOSE i \in 1..Len(srch.chunks) : srch.chunks[i] = chunk

OmittedChunks == Range(srch.chunks) \ Range(srch.result)

(* C20: search_chunks returns min(K, n) of the n chunks it is given, each  *)
(* once, in an order of non-increasing cosine similarity to the query; no  *)
(* chunk it leaves out scores higher than one it returns; and chunks of    *)
(* equal similarity keep the order of the input, among the returned ones   *)
(* and across the cut after position K.                                    *)
C20_TopKStableDescending ==
    srch.pc = "returned" =>
        LET r == srch.result
        IN  /\ Len(r) = Min2(srch.top_k, Len(srch.chunks))
            /\ Range(r) \subseteq Range(srch.chunks)
            /\ Cardinality(Range(r)) = Len(r)
            /\ \A k, l \in 1..Len(r) : k < l =>
                    /\ ~SimLess(SimOf(r[k]), SimOf(r[l]))
                    /\ SameSim(r[k], r[l]) => InputPos(r[k]) < InputPos(r[l])
            /\ \A k \in 1..Len(r) : \A o \in OmittedChunks :
                    /\ ~SimLess(SimOf(r[k]), SimOf(o))
                    /\ SameSim(r[k], o) => InputPos(r[k]) < InputPos(o)

\* more than K chunks, the K-th returned one scoring the same as one that was
\* left out, and two returned ones scoring differently
C20_Witness ==
    /\ srch.pc = "returned"
    /\ Len(srch.chunks) > srch.top_k
    /\ \E o \in OmittedChunks : SameSim(srch.result[srch.top_k], o)
    /\ SimLess(SimOf(srch.result[srch.top_k]), SimOf(srch.result[1]))

\* the query or the chunk's stored vector has norm zero
ZeroNormPair(chunk) ==
    Dot(srch.query_embedding, srch.query_embedding) = 0
    \/ Dot(chunk.embedding, chunk.embedding) = 0

(* C21: when the query vector or a chunk's stored vector has norm zero,    *)
(* search_chunks does not divide zero by zero: the pair is scored 0 (the   *)
(* call never rejects a chunk with an error), and the chunks it returns    *)
(* whose pair has no such vector are in an order of non-increasing         *)
(* similarity.                                                             *)
C21_ZeroNormScoredZero ==
    srch.pc = "returned" =>
        LET r == srch.result
        IN  /\ \A k \in 1..Len(srch.chunks) :
                    ZeroNormPair(srch.chunks[k])
                    => /\ ~IsNaN(SimOf(srch.chunks[k]))
                       /\ SimOf(srch.chunks[k]).dot = 0
            /\ \A k, l \in 1..Len(r) :
                    (k < l /\ ~ZeroNormPair(r[k]) /\ ~ZeroNormPair(r[l]))
                    => ~SimLess(SimOf(r[k]), SimOf(r[l]))

----------------------------------------------------------------------------
(* Claims about answer_question *)

\* the keywords as the claim lists them
ListedKeywords ==
    {<<"s", "e", "t", "u", "p">>,
     <<"s", "e", "t", " ", "u", "p">>,
     <<"s", "t", "a", "r", "t">>,
     <<"b", "e", "g", "i", "n", "n", "i", "n", "g">>,
     <<"p", "r", "e", "p", "a", "r", "e">>,
     <<"h", "o", "w", " ", "t", "o", " ", "p", "l", "a", "y">>,
     <<"g", "e", "t", "t", "i", "n", "g", " ", "s", "t", "a", "r", "t", "e", "d">>}

\* word occurs in text at some position, whatever the case of text's letters
OccursIgnoringCase(text, word) ==
    \E k \in 1..Len(text) :
        /\ k + Len(word) - 1 <= Len(text)
        /\ \A j \in 1..Len(word) : LowerChar(text[k + j - 1]) = word[j]

(* C22: answer_question puts the numbered step-by-step walkthrough         *)
(* instruction into the prompt exactly when the lower-cased question       *)
(* contains one of setup, set up, start, beginning, prepare, how to play,  *)
(* getting started, and the direct-answer instruction in every other case. *)
C22_SetupInstruction ==
    ans.pc \in {"prompted", "returned"} /\ ans.instruction /= "none" =>
        /\ ans.instruction \in {"setup", "direct"}
        /\ ans.instruction = "setup"
            <=> \E word \in ListedKeywords : OccursIgnoringCase(ans.question, word)

\* "Set up" in capitals and lower case got the walkthrough instruction
C22_Witness ==
    /\ ans.pc = "prompted"
    /\ ans.question = <<"S", "e", "t", " ", "u", "p">>
    /\ ans.instruction = "setup"

\* the pages of the tuple answer_question returned
PagesOf(ret) == {ret[2][k] : k \in 1..Len(ret[2])}

(* C23: the page list answer_question returns for a game with chunks is    *)
(* strictly ascending and holds exactly the page numbers of the chunks put *)
(* into the context, and the source types it returns are exactly the       *)
(* source types of those chunks.                                           *)
C23_PagesAndSources ==
    (ans.pc = "returned" /\ ans.context /= <<>>) =>
        /\ Len(ans.ret) = 3
        /\ \A k, l \in 1..Len(ans.ret[2]) : k < l => ans.ret[2][k] < ans.ret[2][l]
        /\ PagesOf(ans.ret) = {ans.context[k].page : k \in 1..Len(ans.context)}
        /\ {SourceLabel(t) : t \in ans.ret[3]}
                = {ans.context[k].label : k \in 1..Len(ans.context)}
        /\ ans.ret[3] \subseteq {"rulebook", "faq", "errata", "supplement"}

\* five chunks of two source types, two of them of one page, and a chunk of
\* the game left out
C23_Witness ==
    /\ ans.pc = "returned"
    /\ Len(ans.context) = TOP_K_RESULTS
    /\ Len(get_game_chunks(db, ans.game_title)) > TOP_K_RESULTS
    /\ Len(ans.ret[2]) < TOP_K_RESULTS
    /\ Cardinality(ans.ret[3]) = 2

----------------------------------------------------------------------------
(* Claims about the source types of the chunks *)

\* the chunk rows of the games of a title
ChunkRowsOf(d, title) ==
    {c \in d.chunks : \E g \in GamesTitled(d, title) : c.game_id = g.id}

\* what get_game_chunks returns of a chunk row
AsReturned(c) ==
    [chunk_id |-> c.chunk_id, page |-> c.page_number, text |-> c.text,
     embedding |-> c.embedding, source_type |-> c.source_type]

\* the total_chunks of a title, 0 when no game has it
StoredChunks(d, title) ==
    IF GamesTitled(d, title) = {} THEN 0
    ELSE (CHOOSE g \in GamesTitled(d, title) : TRUE).total_chunks

(* C24: every chunk row carries the source type of the file whose          *)
(* ingestion inserted it and a later ingestion changes no row that is      *)
(* there; after the ingestion of a file the title has one game row whose   *)
(* total_chunks is the sum of the chunk counts of the files ingested into  *)
(* it, and get_game_chunks returns the rows of that game, those tagged     *)
(* rulebook and those tagged faq, and no row of another game.              *)
C24_SourceTypesKept ==
    [][(ProcessPdfStep /\ run'.processed_count = run.processed_count + 1) =>
        LET filename == run.pdf_files[run.idx + 1]
            title == extract_game_title_from_filename(filename)
            new == db'.chunks \ db.chunks
        IN  /\ db.chunks \subseteq db'.chunks
            /\ \A c \in new : /\ c.source_type = get_document_type(filename)
                               /\ c \in ChunkRowsOf(db', title)
            /\ Cardinality(new)
                    = Len(chunk_text(extract_text_from_pdf(run.folder[filename]),
                                     CHUNK_SIZE, CHUNK_OVERLAP))
            /\ Cardinality(GamesTitled(db', title)) = 1
            /\ StoredChunks(db', title) = StoredChunks(db, title) + Cardinality(new)
            /\ \A returned \in {get_game_chunks(db', title)} :
                /\ Len(returned) = Cardinality(ChunkRowsOf(db', title))
                /\ Range(returned) = {AsReturned(c) : c \in ChunkRowsOf(db', title)}]_vars

\* a rulebook and then a FAQ were ingested into one game, which has the
\* chunks of both, and another game has a chunk
C24_Witness ==
    /\ run.pc = "loop" /\ run.idx = 3 /\ run.processed_count = 3
    /\ get_document_type(run.pdf_files[run.idx]) = "faq"
    /\ Cardinality(db.games) = 2
    /\ \E g \in db.games :
        /\ g.total_chunks = 4
        /\ {c.source_type : c \in ChunkRowsOf(db, g.title)} = {"rulebook", "faq"}
        /\ Len(get_game_chunks(db, g.title)) = 4
    /\ \E c \in db.chunks : c.source_type = "supplement"

----------------------------------------------------------------------------
(* Claims about get_document_type *)

HasWord(word) == OccursIgnoringCase(doc.filename, word)

HasFaq == HasWord(<<"f", "a", "q">>)

HasDottedFaq == HasWord(<<"f", ".", "a", ".", "q">>)

HasErrata == HasWord(<<"e", "r", "r", "a", "t", "a">>)

HasRules == HasWord(<<"r", "u", "l", "e", "b", "o", "o", "k">>) \/ HasWord(<<"r", "u", "l", "e", "s">>)

\* the type by the priority order faq, errata, rulebook/rules, supplement,
\* with faq decided by is_faq
TypeByPriority(is_faq) ==
    IF is_faq THEN "faq"
    ELSE IF HasErrata THEN "errata"
    ELSE IF HasRules THEN "rulebook"
    ELSE "supplement"

(* C25 as stated: get_document_type returns one of faq, errata, rulebook,  *)
(* supplement, decided case-insensitively in the priority order faq,       *)
(* errata, rulebook/rules, and supplement exactly when none of the         *)
(* keywords faq, errata, rulebook, rules occurs in the filename.           *)
C25_TypeAsStated ==
    doc.pc = "returned" => doc.ret = TypeByPriority(HasFaq)

(* C25: get_document_type returns one of faq, errata, rulebook,            *)
(* supplement, decided case-insensitively in the priority order faq (the   *)
(* filename contains faq or f.a.q), errata, rulebook/rules, and supplement *)
(* exactly when none of faq, f.a.q, errata, rulebook, rules occurs.        *)
C25_DocumentType ==
    doc.pc = "returned" =>
        /\ doc.ret \in {"faq", "errata", "rulebook", "supplement"}
        /\ doc.ret = TypeByPriority(HasFaq \/ HasDottedFaq)
        /\ doc.ret = "supplement"
            <=> ~(HasFaq \/ HasDottedFaq \/ HasErrata \/ HasRules)

\* a filename with errata and rules in it was typed errata
C25_Witness ==
    /\ doc.pc = "returned"
    /\ HasErrata /\ HasRules /\ ~HasFaq /\ ~HasDottedFaq
    /\ doc.ret = "errata"

----------------------------------------------------------------------------
(* Claims about the windows of chunk_text *)

\* the offset in its page of the first token of a chunk that is not empty
\* (the token <<n, i>> is the i-th of page n)
StartOffset(chunk) == chunk.text[1][2] - 1

(* C26: for 0 <= O < S the windows chunk_text cuts from a page of L tokens *)
(* start at the offsets 0, S-O, 2(S-O), ... below L, one window at each    *)
(* and none elsewhere; a window holds the tokens from its start up to S of *)
(* them or to the end of the page, so each is non-empty and at most S      *)
(* long and the last one is there even when it is shorter than S; and      *)
(* every token of the page is in some window.                              *)
C26_Windows ==
    ChunkDone =>
        \A k \in 1..Len(ck.pages) :
            LET tokens == ck.pages[k].tokens
                L == Len(tokens)
                S == ck.chunk_size
                step == ck.chunk_size - ck.overlap
                of_page == ChunksOfPage(ck, ck.pages[k].page)
            IN  /\ \A i \in of_page :
                    /\ Len(ck.chunks[i].text) >= 1
                    /\ Len(ck.chunks[i].text) <= S
                    /\ ck.chunks[i].text
                            = SubSeq(tokens, StartOffset(ck.chunks[i]) + 1,
                                     Min2(StartOffset(ck.chunks[i]) + S, L))
                /\ {StartOffset(ck.chunks[i]) : i \in of_page}
                        = {o \in 0..(L - 1) : o % step = 0}
                /\ Cardinality(of_page) = Cardinality({o \in 0..(L - 1) : o % step = 0})
                /\ \A t \in 1..L : \E i \in of_page :
                        tokens[t] \in Range(ck.chunks[i].text)

\* two pages of 4 tokens cut with chunk_size 3 and overlap 0: each gives a
\* full window and a last window of one token
C26_Witness ==
    /\ ChunkDone
    /\ ck.chunk_size = 3 /\ ck.overlap = 0
    /\ Len(ck.pages) = 2
    /\ Len(ck.pages[1].tokens) = 4 /\ Len(ck.pages[2].tokens) = 4
    /\ Len(ck.chunks) = 4
    /\ Len(ck.chunks[4].text) = 1

----------------------------------------------------------------------------
(* Claims about the counters and the records of the store *)

(* C27: in every state reached by add_game and delete_game calls, those    *)
(* that were rolled back, that repeated a filename and that merged into a  *)
(* game included, the total_chunks of every game is the number of chunk    *)
(* rows of that game; the total_chunks of get_library_stats is the number  *)
(* of chunk rows of the store, and 0 for a library without games.          *)
C27_TotalChunksCountsRows ==
    /\ \A g \in db.games :
            g.total_chunks = Cardinality({c \in db.chunks : c.game_id = g.id})
    /\ get_library_stats(db).total_chunks = Cardinality(db.chunks)
    /\ db.games = {} => get_library_stats(db).total_chunks = 0

\* two calls have put one chunk each into one game, and a game without
\* chunks is there too
C27_Witness ==
    /\ Cardinality(db.games) = 2
    /\ \E g \in db.games : g.total_chunks = 2 /\ g.total_pages = 2
    /\ get_library_stats(db).total_chunks = 2
    /\ conn["c1"].ret = "returned"

(* C28: in every state reached by add_game and delete_game calls every     *)
(* processed_files record names a game that is in the library, so that     *)
(* file_already_processed(f) holds only while the game f went into is      *)
(* there and process_pdf does not skip a file of a deleted game.           *)
C28_FileRecordsFollowGames ==
    \A filename \in StoreFilenames :
        /\ file_already_processed(db, filename) =>
                /\ \A f \in RecordsOf(db, filename) : f.game_id \in GameIds(db)
                /\ game_exists(db, extract_game_title_from_filename(filename))
        /\ ~game_exists(db, extract_game_title_from_filename(filename)) =>
                process_pdf(db, filename, [readable |-> TRUE, lens |-> <<1>>],
                            NoFault).ret = "True"

----------------------------------------------------------------------------
(* Claims about the staff request buttons *)

\* the calls of send_staff_ping made for the button of message idx
PingsFor(s, idx) == {k \in 1..Len(s.staff_pings) : s.staff_pings[k].button = idx}

\* the last message of the chat is the confirmation of a staff request
EndsWithConfirmation(s) ==
    /\ s.messages /= <<>>
    /\ s.messages[Len(s.messages)].content = CheckMarked(StaffNotified)

(* C29: for every message that offers staff assistance send_staff_ping is  *)
(* called at most once, whatever buttons are pressed in whatever runs:     *)
(* the press of "Yes, get help" sets the message's staff_requested to True *)
(* and sends the one ping, the flag then stays True and no later run sends *)
(* another ping for the message; and a run appends the confirmation text   *)
(* to the chat only when it is such a press.                               *)
C29_OnePingPerMessage ==
    [][/\ \A idx \in 1..Len(chat.messages) :
            /\ StaffRequested(chat.messages[idx]) = "True" =>
                    /\ StaffRequested(chat'.messages[idx]) = "True"
                    /\ PingsFor(chat', idx) = PingsFor(chat, idx)
            /\ Cardinality(PingsFor(chat', idx)) <= 1
            /\ Cardinality(PingsFor(chat', idx)) = 1 <=>
                    StaffRequested(chat'.messages[idx]) = "True"
       /\ (Len(chat'.messages) > Len(chat.messages) /\ EndsWithConfirmation(chat')) =>
            \E idx \in 1..Len(chat.messages) :
                /\ ContainsStaffOffer(chat.messages[idx].content)
                /\ StaffRequested(chat.messages[idx]) /= "True"
                /\ StaffRequested(chat'.messages[idx]) = "True"
                /\ PingsFor(chat', idx) = {Len(chat'.staff_pings)}
                /\ Len(chat'.staff_pings) = Len(chat.staff_pings) + 1
                /\ Len(chat'.messages) = Len(chat.messages) + 1]_vars

\* an offer was first declined and then accepted: both replies are in the
\* chat, the message is marked and one ping was sent
C29_Witness ==
    /\ chat /= <<>>
    /\ Len(chat.staff_pings) = 1
    /\ EndsWithConfirmation(chat)
    /\ \E k \in 1..Len(chat.messages) : chat.messages[k].content = DeclinedReply
    /\ \E idx \in 1..Len(chat.messages) :
            /\ StaffRequested(chat.messages[idx]) = "True"
            /\ PingsFor(chat, idx) = {1}

====
